---- MODULE Spec2Model ----
(***************************************************************************)
(* Review analytics of luanshijiban/PP: ReviewAnalyzer                     *)
(* (src/analyze_reviews.py), FinalReviewAnalyzer                           *)
(* (src/analyze_reviews_final.py) and FinalChartGenerator                  *)
(* (src/generate_final_charts.py).                                         *)
(*                                                                         *)
(* Text (column names, review texts, keywords) is a sequence of one-       *)
(* character strings, so that str.lower() and the substring test `in` /    *)
(* str.contains are computed, not assumed.  A CJK character is written by  *)
(* its code point ("U661F").  A cell of the data frame is a record         *)
(* [t, n, s]: t is "null" (NaN/NaT/None), "num", "str", "ts" (a            *)
(* datetime64 value, n = YYYYMMDD) or "period" (a monthly Period,          *)
(* n = YYYYMM).  A mean or a share is kept as the pair of integers the     *)
(* code divides, so that no threshold sees a rounded number.               *)
(***************************************************************************)
EXTENDS Integers, Sequences, FiniteSets, TLC

VARIABLES
  file,       \* the source file: readable or not, and the row set it holds
  now,        \* datetime.now() of the run, as YYYYMMDD
  mode,       \* "pipeline": run_full_analysis; "calls": its methods called one by
              \* one; "final": FinalReviewAnalyzer.run_analysis; "charts":
              \* FinalChartGenerator.run
  pc,         \* the next step of the run
  df,         \* self.df
  stats,      \* self.stats, a dict
  insights,   \* self.insights
  trend,      \* what analyze_trends printed and plotted (None: nothing)
  report,     \* analysis_report.txt (None: not written)
  result,     \* what run_full_analysis returned ("None": not yet)
  product_insights,  \* self.product_insights of the pros/cons analyzers
  raised,     \* an exception left the run
  rating_col,        \* the local rating_col of analyze_ratings when it last ran
  product_ranking,   \* what analyze_products printed and plotted (None: nothing)
  region_ranking,    \* what analyze_regions printed and plotted (None: nothing)
  previous,   \* the aggregates of the run before, when the analyzer runs again
  numpy_sort  \* how the installed numpy orders equal keys in sort_values: as
              \* they come ("stable"), the other way round ("reversed"), or
              \* not known ("any")

vars == <<previous, numpy_sort, file, now, mode, pc, df, stats, insights, trend, report, result,
          product_insights, raised, rating_col, product_ranking, region_ranking>>

\* what the rating, product and region steps leave behind
printed == <<rating_col, product_ranking, region_ranking>>

(***************************************************************************)
(* Bounds of the model.                                                    *)
(***************************************************************************)
MaxRows == 2
MaxBlock == 10
MaxRowsCalls == 0
MaxBlockCalls == 4
MaxMix == 5
MaxGroupRows == 3
MaxNamedRows == 1
MaxRowsTwice == 2

(***************************************************************************)
(* Text.                                                                   *)
(***************************************************************************)
Uppers == <<"A","B","C","D","E","F","G","H","I","J","K","L","M",
            "N","O","P","Q","R","S","T","U","V","W","X","Y","Z">>
Lowers == <<"a","b","c","d","e","f","g","h","i","j","k","l","m",
            "n","o","p","q","r","s","t","u","v","w","x","y","z">>
Digits == <<"0","1","2","3","4","5","6","7","8","9">>

\* the lower-case letter of every upper-case letter
ToLower ==
  [c \in {Uppers[i] : i \in 1..26} |-> Lowers[CHOOSE i \in 1..26 : Uppers[i] = c]]

LowerChar(c) == IF c \in DOMAIN ToLower THEN ToLower[c] ELSE c

\* str.lower()
lower(s) == [i \in 1..Len(s) |-> LowerChar(s[i])]

\* the Python test `pat in s` on str
In(pat, s) ==
  \E i \in 0..(Len(s) - Len(pat)) :
    \A j \in 1..Len(pat) : s[i + j] = pat[j]

(***************************************************************************)
(* Cells.                                                                  *)
(***************************************************************************)
NULL == [t |-> "null", n |-> 0, s |-> <<>>]
Num(x) == [t |-> "num", n |-> x, s |-> <<>>]
Str(x) == [t |-> "str", n |-> 0, s |-> x]
Ts(x) == [t |-> "ts", n |-> x, s |-> <<>>]
Period(x) == [t |-> "period", n |-> x, s |-> <<>>]

\* Series.isnull() / what dropna() drops
isnull(v) == v.t = "null"

None == [isNone |-> TRUE]

(***************************************************************************)
(* Sequence helpers.                                                       *)
(***************************************************************************)
RECURSIVE SumSeq(_)
SumSeq(s) == IF s = <<>> THEN 0 ELSE Head(s) + SumSeq(Tail(s))

RECURSIVE Filter(_, _)
\* the subsequence of s at the positions where keep is TRUE (boolean mask)
Filter(s, keep) ==
  IF s = <<>> THEN <<>>
  ELSE IF Head(keep) THEN <<Head(s)>> \o Filter(Tail(s), Tail(keep))
       ELSE Filter(Tail(s), Tail(keep))

\* positions of s, in order, whose element satisfies the mask
Positions(keep) == Filter([i \in 1..Len(keep) |-> i], keep)

(***************************************************************************)
(* Column names and name patterns of the source.                           *)
(***************************************************************************)
cRating == <<"R","a","t","i","n","g">>
cReview == <<"R","e","v","i","e","w">>
cDate == <<"D","a","t","e">>
cCreated == <<"C","r","e","a","t","e","d">>
year_month == <<"y","e","a","r","_","m","o","n","t","h">>


cScore == <<"S","c","o","r","e">>
cPingfen == <<"U8BC4","U5206">>
cProductName == <<"P","r","o","d","u","c","t">>
cCountry == <<"C","o","u","n","t","r","y">>
cProductRating == <<"P","r","o","d","u","c","t"," ","R","a","t","i","n","g">>
cRatingDate == <<"r","a","t","i","n","g","_","d","a","t","e">>


\* `'date' in col.lower() or 'time' in col.lower() or '日期' in col or '时间' in col`
IsDateName(col) ==
  \/ In(<<"d","a","t","e">>, lower(col)) \/ In(<<"t","i","m","e">>, lower(col))
  \/ In(<<"U65E5","U671F">>, col) \/ In(<<"U65F6","U95F4">>, col)

\* the rating test of detect_anomalies (and of analyze_trends)
IsRatingName3(col) ==
  \/ In(<<"r","a","t","i","n","g">>, lower(col)) \/ In(<<"s","t","a","r">>, lower(col)) \/ In(<<"U661F">>, col)

\* the rating test of analyze_ratings
IsRatingName4(col) ==
  \/ In(<<"r","a","t","i","n","g">>, lower(col)) \/ In(<<"s","t","a","r">>, lower(col))
  \/ In(<<"U661F">>, col) \/ In(<<"U8BC4","U5206">>, col)

\* the rating test of clean_data
IsRatingName5(col) ==
  \/ In(<<"r","a","t","i","n","g">>, lower(col)) \/ In(<<"s","t","a","r">>, lower(col))
  \/ In(<<"U661F">>, col) \/ In(<<"U8BC4","U5206">>, col) \/ In(<<"s","c","o","r","e">>, lower(col))

\* the product test of analyze_products
IsProductName(col) ==
  \/ In(<<"p","r","o","d","u","c","t">>, lower(col)) \/ In(<<"U4EA7","U54C1">>, col)
  \/ In(<<"i","t","e","m">>, lower(col)) \/ In(<<"s","k","u">>, lower(col))

\* the region test of analyze_regions
IsRegionName(col) ==
  \/ In(<<"r","e","g","i","o","n">>, lower(col)) \/ In(<<"c","o","u","n","t","r","y">>, lower(col)) \/ In(<<"l","o","c","a","t","i","o","n">>, lower(col))
  \/ In(<<"U5730","U533A">>, col) \/ In(<<"U56FD","U5BB6">>, col) \/ In(<<"U533A","U57DF">>, col)

\* the comment test of detect_anomalies
IsCommentName(col) ==
  \/ In(<<"c","o","m","m","e","n","t">>, lower(col)) \/ In(<<"r","e","v","i","e","w">>, lower(col))
  \/ In(<<"U8BC4","U8BBA">>, col) \/ In(<<"U5185","U5BB9">>, col)

(***************************************************************************)
(* Data frame: columns in order, a dtype and the cells of each column.     *)
(***************************************************************************)
\* no column: the None of a column variable of a method
NoColumn == <<>>

DT_DATETIME == "datetime64[ns]"
DT_OBJECT == "object"
DT_NUMBER == "float64"
DT_PERIOD == "period[M]"

\* len(self.df)
len(d) == d.len

HasColumn(d, c) == \E i \in 1..Len(d.columns) : d.columns[i] = c

\* self.df[c] = cells : replaces the column, or appends it as the last one
SetColumn(d, c, dt, cells) ==
  [columns |-> IF HasColumn(d, c) THEN d.columns ELSE Append(d.columns, c),
   dtype |-> [x \in DOMAIN d.dtype \cup {c} |-> IF x = c THEN dt ELSE d.dtype[x]],
   data |-> [x \in DOMAIN d.data \cup {c} |-> IF x = c THEN cells ELSE d.data[x]],
   len |-> d.len]

\* Series.isnull().sum()
NullCount(cells) == SumSeq([i \in 1..Len(cells) |-> IF isnull(cells[i]) THEN 1 ELSE 0])

\* Series.dropna()
dropna(cells) == Filter(cells, [i \in 1..Len(cells) |-> ~isnull(cells[i])])

(***************************************************************************)
(* pd.to_datetime.  The texts of the model are ISO dates "YYYY-MM-DD" and  *)
(* texts that are no date; a number is taken as nanoseconds since the      *)
(* epoch (1970-01-01 for the small numbers of the model); a missing cell   *)
(* becomes NaT; one cell that does not parse makes the whole call raise.   *)
(***************************************************************************)
IsDigit(c) == \E i \in 1..10 : Digits[i] = c
DigitVal(c) == (CHOOSE i \in 1..10 : Digits[i] = c) - 1

IsIsoDate(s) ==
  /\ Len(s) = 10
  /\ s[5] = "-" /\ s[8] = "-"
  /\ \A i \in {1, 2, 3, 4, 6, 7, 9, 10} : IsDigit(s[i])
  /\ (10 * DigitVal(s[6]) + DigitVal(s[7])) \in 1..12
  /\ (10 * DigitVal(s[9]) + DigitVal(s[10])) \in 1..31

IsoDateVal(s) ==
  10000 * (1000 * DigitVal(s[1]) + 100 * DigitVal(s[2]) + 10 * DigitVal(s[3]) + DigitVal(s[4]))
  + 100 * (10 * DigitVal(s[6]) + DigitVal(s[7]))
  + (10 * DigitVal(s[9]) + DigitVal(s[10]))

Parses(v) == v.t \in {"null", "ts", "num"} \/ (v.t = "str" /\ IsIsoDate(v.s))

ParseCell(v) ==
  CASE v.t = "str" -> IF IsIsoDate(v.s) THEN Ts(IsoDateVal(v.s)) ELSE v
    [] v.t = "num" -> Ts(19700101)
    [] OTHER -> v

to_datetime(cells) ==
  [ok |-> \A i \in 1..Len(cells) : Parses(cells[i]),
   cells |-> [i \in 1..Len(cells) |-> ParseCell(cells[i])]]

\* Series.dt.to_period('M')
to_period(cells) ==
  [i \in 1..Len(cells) |-> IF isnull(cells[i]) THEN NULL ELSE Period(cells[i].n \div 100)]

(***************************************************************************)
(* pandas primitives used by the analyses.                                 *)
(***************************************************************************)
\* the columns, in column order, that satisfy a test given as a mask
ColumnsWhere(d, mask) == Filter(d.columns, mask)

RECURSIVE InsertDesc(_, _)
\* x goes behind every element whose key k is >= its own
InsertDesc(sorted, x) ==
  IF sorted = <<>> THEN <<x>>
  ELSE IF Head(sorted).k >= x.k THEN <<Head(sorted)>> \o InsertDesc(Tail(sorted), x)
       ELSE <<x>> \o sorted

RECURSIVE SortDesc(_)
\* list.sort(key = k, reverse = True): descending and stable
SortDesc(s) ==
  IF s = <<>> THEN <<>>
  ELSE InsertDesc(SortDesc(SubSeq(s, 1, Len(s) - 1)), s[Len(s)])

\* Series.unique(): the values in order of first appearance, NaN included
unique(cells) ==
  Filter(cells, [i \in 1..Len(cells) |-> \A j \in 1..(i - 1) : cells[j] # cells[i]])

\* number of cells equal to v
CountOf(cells, v) == SumSeq([i \in 1..Len(cells) |-> IF cells[i] = v THEN 1 ELSE 0])

\* Series.value_counts(): NaN dropped, most frequent value first
value_counts(cells) ==
  LET vals == unique(dropna(cells))
  IN SortDesc([i \in 1..Len(vals) |-> [value |-> vals[i], k |-> CountOf(cells, vals[i])]])

\* a variant that marks every occurrence of a repeated value (keep=False)
duplicated_all(cells) ==
  [i \in 1..Len(cells) |-> \E j \in 1..Len(cells) : j # i /\ cells[j] = cells[i]]

\* Series.duplicated(): TRUE at every occurrence of a value but its first
\* (pandas takes two missing cells as equal here)
duplicated(cells) == [i \in 1..Len(cells) |-> \E j \in 1..(i - 1) : cells[j] = cells[i]]

RECURSIVE Ascending(_)
\* the numbers of a finite set in ascending order
Ascending(S) ==
  IF S = {} THEN <<>>
  ELSE LET m == CHOOSE x \in S : \A y \in S : x <= y
       IN <<m>> \o Ascending(S \ {m})

\* a variant that lists every calendar month from the first observed one
\* to the last, the months without rows with a count of 0
groupby_size_filled(keys) ==
  LET obs == {keys[i].n : i \in {j \in 1..Len(keys) : ~isnull(keys[j])}}
      ps == Ascending({m \in 190001..210012 :
                         /\ m % 100 \in 1..12
                         /\ \E a, b \in obs : a <= m /\ m <= b})
  IN [i \in 1..Len(ps) |-> [key |-> Period(ps[i]), count |-> CountOf(keys, Period(ps[i]))]]

\* df.groupby(key).size() for a column of periods (or of numbers): one
\* entry per observed key (rows with a missing key belong to no group), in
\* ascending order
groupby_size(keys) ==
  LET present == {keys[i] : i \in {j \in 1..Len(keys) : ~isnull(keys[j])}}
      ps == Ascending({k.n : k \in present})
      key(p) == CHOOSE k \in present : k.n = p
  IN [i \in 1..Len(ps) |-> [key |-> key(ps[i]), count |-> CountOf(keys, key(ps[i]))]]

\* df.groupby(key)[col].mean() for a period column: sum and number of the
\* non-missing values of each group (the mean is NaN when n = 0)
groupby_mean(keys, cells) ==
  LET ps == Ascending({keys[i].n : i \in {j \in 1..Len(keys) : ~isnull(keys[j])}})
      members(p) == [i \in 1..Len(keys) |-> keys[i] = Period(p) /\ ~isnull(cells[i])]
  IN [i \in 1..Len(ps) |->
        [key |-> Period(ps[i]),
         sum |-> SumSeq([j \in 1..Len(cells) |-> IF members(ps[i])[j] THEN cells[j].n ELSE 0]),
         n |-> Len(Positions(members(ps[i])))]]

\* a variant that takes the growth over the first observed period
pct_change_from_first(groups) ==
  [i \in 1..Len(groups) |->
     IF i = 1 THEN [key |-> groups[i].key, nan |-> TRUE, num |-> 0, den |-> 0]
     ELSE [key |-> groups[i].key, nan |-> FALSE,
           num |-> groups[i].count - groups[1].count,
           den |-> groups[1].count]]

\* Series.pct_change() of the monthly counts: c[i] / c[i-1] - 1, kept as
\* the pair (c[i] - c[i-1], c[i-1]); the first entry is NaN
pct_change(groups) ==
  [i \in 1..Len(groups) |->
     IF i = 1 THEN [key |-> groups[i].key, nan |-> TRUE, num |-> 0, den |-> 0]
     ELSE [key |-> groups[i].key, nan |-> FALSE,
           num |-> groups[i].count - groups[i - 1].count,
           den |-> groups[i - 1].count]]

(***************************************************************************)
(* Grouping by a product or region column.  A key is a number or a text;   *)
(* texts are ordered as Python orders str, by code point (the letters of   *)
(* the model: A..Z before a..z).                                           *)
(***************************************************************************)
CodePoint(c) == CHOOSE i \in 1..52 : (Uppers \o Lowers)[i] = c

RECURSIVE TextLess(_, _)
\* s < t on str
TextLess(s, t) ==
  IF t = <<>> THEN FALSE
  ELSE IF s = <<>> THEN TRUE
  ELSE IF Head(s) = Head(t) THEN TextLess(Tail(s), Tail(t))
  ELSE CodePoint(Head(s)) < CodePoint(Head(t))

\* the order of the group keys of one column
KeyLess(a, b) == IF a.t = "num" THEN a.n < b.n ELSE TextLess(a.s, b.s)

RECURSIVE SortKeys(_)
\* the keys of a finite set in ascending order
SortKeys(S) ==
  IF S = {} THEN <<>>
  ELSE LET m == CHOOSE x \in S : \A y \in S \ {x} : KeyLess(x, y)
       IN <<m>> \o SortKeys(S \ {m})

\* df.groupby(key)[col].agg(['mean', 'count']): one entry per observed key
\* in ascending key order (rows with a missing key belong to no group),
\* with the sum and the number of the group's non-missing values (the
\* mean is NaN when count = 0)
groupby_agg(keys, cells) ==
  LET ks == SortKeys({keys[i] : i \in {j \in 1..Len(keys) : ~isnull(keys[j])}})
      members(k) == [i \in 1..Len(keys) |-> keys[i] = k /\ ~isnull(cells[i])]
  IN [i \in 1..Len(ks) |->
        [key |-> ks[i],
         sum |-> SumSeq([j \in 1..Len(cells) |-> IF members(ks[i])[j] THEN cells[j].n ELSE 0]),
         count |-> Len(Positions(members(ks[i])))]]

\* mean(a) > mean(b), both defined
MeanAbove(a, b) == a.sum * b.count > b.sum * a.count

\* DataFrame.sort_values('mean', ascending=False): every order of the
\* groups that is descending in the mean with the NaN means last.  The
\* default sort kind is numpy's quicksort, which is not stable, so groups
\* of equal mean may come out in any order.
sort_values_mean(groups) ==
  {[i \in 1..Len(groups) |-> groups[p[i]]] :
     p \in {q \in [1..Len(groups) -> 1..Len(groups)] :
              /\ \A i, j \in 1..Len(groups) : i # j => q[i] # q[j]
              /\ \A i, j \in 1..Len(groups) :
                   i < j =>
                     /\ groups[q[i]].count = 0 => groups[q[j]].count = 0
                     /\ (groups[q[i]].count > 0 /\ groups[q[j]].count > 0)
                          => ~MeanAbove(groups[q[j]], groups[q[i]])}}

\* the orders sort_values gives under one numpy: equal means stay in the
\* order of the group keys, or come out the other way round; every order
\* when the numpy is not known
sort_values_as(groups, kind) ==
  LET at(r, i) == CHOOSE k \in 1..Len(groups) : groups[k] = r[i]
      tie(r, i, j) == ~MeanAbove(r[i], r[j]) /\ ~MeanAbove(r[j], r[i])
                        /\ (r[i].count = 0 <=> r[j].count = 0)
  IN {r \in sort_values_mean(groups) :
        \/ kind = "any"
        \/ kind = "stable" /\ \A i, j \in 1..Len(r) :
                                 (i < j /\ tie(r, i, j)) => at(r, i) < at(r, j)
        \/ kind = "reversed" /\ \A i, j \in 1..Len(r) :
                                   (i < j /\ tie(r, i, j)) => at(r, i) > at(r, j)}

(***************************************************************************)
(* ReviewAnalyzer.analyze_ratings: the rating aggregate.                   *)
(***************************************************************************)
DtypeMask(d, dt) == [i \in 1..Len(d.columns) |-> d.dtype[d.columns[i]] = dt]

\* a variant that keeps the order of value_counts(), most frequent first
RatingDistribution_by_count(ratings) ==
  LET vc == value_counts(ratings)
  IN [i \in 1..Len(vc) |-> [value |-> vc[i].value, count |-> vc[i].k]]

\* Series.value_counts().sort_index(ascending=False).to_dict()
RatingDistribution(ratings) ==
  LET vc == value_counts(ratings)
      byValue == SortDesc([i \in 1..Len(vc) |-> [value |-> vc[i].value, count |-> vc[i].k,
                                                  k |-> vc[i].value.n]])
  IN [i \in 1..Len(byValue) |-> [value |-> byValue[i].value, count |-> byValue[i].count]]

\* Series.median(): the middle order statistic, or the mean of the two
\* middle ones, as the pair (num, den); NaN (den = 0) when empty
Median(ratings) ==
  LET n == Len(ratings)
      desc == SortDesc([i \in 1..n |-> [k |-> ratings[i].n]])
  IN IF n = 0 THEN [num |-> 0, den |-> 0]
     ELSE IF n % 2 = 1 THEN [num |-> desc[(n + 1) \div 2].k, den |-> 1]
     ELSE [num |-> desc[n \div 2].k + desc[n \div 2 + 1].k, den |-> 2]

\* Series.std() (pandas default ddof = 1): the variance as the pair
\* (n * sum(x^2) - sum(x)^2, n * (n - 1)); NaN (den = 0) when n <= 1
Std(ratings) ==
  LET n == Len(ratings)
      sx == SumSeq([i \in 1..n |-> ratings[i].n])
      sxx == SumSeq([i \in 1..n |-> ratings[i].n * ratings[i].n])
  IN [num |-> n * sxx - sx * sx, den |-> n * (n - 1)]

\* a variant that adds the counts of the distribution to the counts the
\* analyzer already holds
RatingStats_accumulating(d) ==
  LET cols == ColumnsWhere(d, [i \in 1..Len(d.columns) |-> IsRatingName4(d.columns[i])])
      ratings == dropna(d.data[cols[1]])
      dist == RatingDistribution(ratings)
      held(v) == IF "rating_stats" \in DOMAIN stats
                 THEN SumSeq([i \in 1..Len(stats["rating_stats"].distribution) |->
                                IF stats["rating_stats"].distribution[i].value = v
                                THEN stats["rating_stats"].distribution[i].count ELSE 0])
                 ELSE 0
  IN [mean |-> [sum |-> SumSeq([i \in 1..Len(ratings) |-> ratings[i].n]), n |-> Len(ratings)],
      median |-> Median(ratings),
      std |-> Std(ratings),
      distribution |-> [i \in 1..Len(dist) |->
                          [value |-> dist[i].value, count |-> dist[i].count + held(dist[i].value)]]]

RatingStats(d) ==
  LET cols == ColumnsWhere(d, [i \in 1..Len(d.columns) |-> IsRatingName4(d.columns[i])])
      ratings == dropna(d.data[cols[1]])
  IN [mean |-> [sum |-> SumSeq([i \in 1..Len(ratings) |-> ratings[i].n]), n |-> Len(ratings)],
      median |-> Median(ratings),
      std |-> Std(ratings),
      distribution |-> RatingDistribution(ratings)]

(***************************************************************************)
(* ReviewAnalyzer.analyze_trends: the period aggregate.                    *)
(***************************************************************************)
\* the first column whose dtype is datetime64[ns], as a list of 0 or 1 names
DateCols(d) == ColumnsWhere(d, DtypeMask(d, DT_DATETIME))

WithYearMonth(d) ==
  SetColumn(d, year_month, DT_PERIOD, to_period(d.data[DateCols(d)[1]]))

TrendOf(d) ==
  LET d2 == WithYearMonth(d)
      rcols == ColumnsWhere(d2, [i \in 1..Len(d2.columns) |-> IsRatingName3(d2.columns[i])])
  IN [date_col |-> DateCols(d)[1],
      rating_col |-> IF rcols = <<>> THEN NoColumn ELSE rcols[1],
      monthly_stats |-> groupby_size(d2.data[year_month]),
      has_rating |-> rcols # <<>>,
      monthly_rating |-> IF rcols = <<>> THEN <<>>
                         ELSE groupby_mean(d2.data[year_month], d2.data[rcols[1]])]

(***************************************************************************)
(* ReviewAnalyzer.detect_anomalies: the five rules, in the order of the    *)
(* code.  A finding is [kind, key, num, den]: key is the value, period or  *)
(* column it names, num / den the ratio the code formats into the message. *)
(* count / n > 0.7 is 10 * count > 7 * n: the float quotient of two small  *)
(* integers compares with the literal as the exact quotient does.          *)
(***************************************************************************)
Finding(kind, key, num, den) == [kind |-> kind, key |-> key, num |-> num, den |-> den]

RatingConcentration(d) ==
  LET cols == ColumnsWhere(d, [i \in 1..Len(d.columns) |-> IsRatingName3(d.columns[i])])
      rating_counts == value_counts(d.data[cols[1]])
  IN IF cols = <<>> \/ rating_counts = <<>> \/ len(d) = 0 THEN <<>>
     ELSE IF 10 * rating_counts[1].k > 7 * len(d)
          THEN <<Finding("RatingConcentration", rating_counts[1].value,
                         rating_counts[1].k, len(d))>>
          ELSE <<>>

DuplicateReviews(d) ==
  LET cols == ColumnsWhere(d, [i \in 1..Len(d.columns) |-> IsCommentName(d.columns[i])])
      dup == duplicated(d.data[cols[1]])
      duplicates == Len(Positions(dup))
  IN IF cols = <<>> THEN <<>>
     ELSE IF duplicates > 0
          THEN <<Finding("DuplicateReviews", NULL, duplicates, len(d))>>
          ELSE <<>>

FutureDate(d, t) ==
  LET cells == d.data[DateCols(d)[1]]
      future_dates == Positions([i \in 1..Len(cells) |-> ~isnull(cells[i]) /\ cells[i].n > t])
  IN IF DateCols(d) = <<>> THEN <<>>
     ELSE IF Len(future_dates) > 0
          THEN <<Finding("FutureDate", NULL, Len(future_dates), len(d))>>
          ELSE <<>>

\* a variant that also takes a growth of exactly 200%
Extreme_ge(g) == ~g.nan /\ g.num >= 2 * g.den

\* growth_rates > 2
Extreme(g) == ~g.nan /\ g.num > 2 * g.den

\* a variant that takes the months from the date column when self.df has
\* no column year_month
BurstGrowth_from_dates(d) ==
  LET monthly_counts == groupby_size(IF HasColumn(d, year_month) THEN d.data[year_month]
                                     ELSE to_period(d.data[DateCols(d)[1]]))
      growth_rates == pct_change(monthly_counts)
      extreme_growth == Filter(growth_rates,
                               [i \in 1..Len(growth_rates) |-> Extreme(growth_rates[i])])
  IN IF DateCols(d) = <<>> THEN <<>>
     ELSE IF Len(monthly_counts) > 1
          THEN [i \in 1..Len(extreme_growth) |->
                  Finding("BurstGrowth", extreme_growth[i].key,
                          extreme_growth[i].num, extreme_growth[i].den)]
          ELSE <<>>

BurstGrowth(d) ==
  LET monthly_counts == groupby_size(d.data[year_month])
      growth_rates == pct_change(monthly_counts)
      extreme_growth == Filter(growth_rates,
                               [i \in 1..Len(growth_rates) |-> Extreme(growth_rates[i])])
  IN IF DateCols(d) = <<>> \/ ~HasColumn(d, year_month) THEN <<>>
     ELSE IF Len(monthly_counts) > 1
          THEN [i \in 1..Len(extreme_growth) |->
                  Finding("BurstGrowth", extreme_growth[i].key,
                          extreme_growth[i].num, extreme_growth[i].den)]
          ELSE <<>>

\* a variant that also takes a missing rate of exactly 30%
MissingTooHigh_ge(nulls, n) == n > 0 /\ 10 * nulls >= 3 * n

\* null_rate > 0.3
MissingTooHigh(nulls, n) == n > 0 /\ 10 * nulls > 3 * n

HighMissingRate(d) ==
  LET flagged == Filter(d.columns,
                        [i \in 1..Len(d.columns) |->
                           MissingTooHigh(NullCount(d.data[d.columns[i]]), len(d))])
  IN [i \in 1..Len(flagged) |->
        Finding("HighMissingRate", Str(flagged[i]), NullCount(d.data[flagged[i]]), len(d))]

\* a variant that evaluates the completeness rule first
DetectAnomalies_missing_first(d, t) ==
  HighMissingRate(d) \o RatingConcentration(d) \o DuplicateReviews(d)
    \o FutureDate(d, t) \o BurstGrowth(d)

DetectAnomalies(d, t) ==
  RatingConcentration(d) \o DuplicateReviews(d) \o FutureDate(d, t)
    \o BurstGrowth(d) \o HighMissingRate(d)

(***************************************************************************)
(* ReviewAnalyzer.generate_insights.                                       *)
(***************************************************************************)
Insight(kind, level, n) == [kind |-> kind, level |-> level, n |-> n]

\* the band of the mean; a NaN mean (n = 0) fails every >= and falls to the
\* else branch
Satisfaction(mean) ==
  IF mean.n > 0 /\ 2 * mean.sum >= 9 * mean.n THEN "very_high"
  ELSE IF mean.n > 0 /\ mean.sum >= 4 * mean.n THEN "good"
  ELSE IF mean.n > 0 /\ mean.sum >= 3 * mean.n THEN "moderate"
  ELSE "low"

\* dist.get(v, 0)
DistGet(dist, v) ==
  SumSeq([i \in 1..Len(dist) |-> IF dist[i].value = Num(v) THEN dist[i].count ELSE 0])

\* v in dist
DistHas(dist, v) == \E i \in 1..Len(dist) : dist[i].value = Num(v)

\* a variant that also takes a combined share of exactly 60%
Polarized_ge(dist) ==
  /\ DistHas(dist, 5) /\ DistHas(dist, 1)
  /\ 5 * (DistGet(dist, 5) + DistGet(dist, 1)) >= 3 * SumSeq([i \in 1..Len(dist) |-> dist[i].count])

\* 5 in dist and 1 in dist and (dist.get(5, 0) + dist.get(1, 0)) /
\* sum(dist.values()) > 0.6
Polarized(dist) ==
  /\ DistHas(dist, 5) /\ DistHas(dist, 1)
  /\ 5 * (DistGet(dist, 5) + DistGet(dist, 1)) > 3 * SumSeq([i \in 1..Len(dist) |-> dist[i].count])

\* a variant that puts the anomaly insight first
GenerateInsights_anomaly_first(st) ==
  (IF "anomalies" \in DOMAIN st /\ st["anomalies"] # <<>>
   THEN <<Insight("anomaly_count", "", Len(st["anomalies"]))>> ELSE <<>>)
  \o (IF "rating_stats" \in DOMAIN st
      THEN <<Insight("satisfaction", Satisfaction(st["rating_stats"].mean), 0)>>
           \o (IF Polarized(st["rating_stats"].distribution)
               THEN <<Insight("polarization", "", 0)>> ELSE <<>>)
      ELSE <<>>)

GenerateInsights(st) ==
  (IF "rating_stats" \in DOMAIN st
   THEN <<Insight("satisfaction", Satisfaction(st["rating_stats"].mean), 0)>>
        \o (IF Polarized(st["rating_stats"].distribution)
            THEN <<Insight("polarization", "", 0)>> ELSE <<>>)
   ELSE <<>>)
  \o (IF "anomalies" \in DOMAIN st /\ st["anomalies"] # <<>>
      THEN <<Insight("anomaly_count", "", Len(st["anomalies"]))>> ELSE <<>>)

\* self.stats[key] = value
DictSet(dict, key, value) ==
  [x \in DOMAIN dict \cup {key} |-> IF x = key THEN value ELSE dict[x]]

(***************************************************************************)
(* The row sets a source file may hold.  Columns: Rating, Review and a     *)
(* date column that is named Date (holding timestamps, or texts), named    *)
(* Created (holding timestamps), or absent.                                *)
(***************************************************************************)
t_jan == <<"2","0","2","4","-","0","1","-","1","5">>
t_feb == <<"2","0","2","4","-","0","2","-","2","0">>
t_apr == <<"2","0","2","4","-","0","4","-","0","5">>
t_bad == <<"n","/","a">>
t_good == <<"G","o","o","d">>

\* the reading of the clock during the run: 2024-03-10
NowChoices == {20240310}

DateSchemas ==
  {<<cDate, DT_DATETIME>>, <<cDate, DT_OBJECT>>, <<cCreated, DT_DATETIME>>,
   <<NoColumn, DT_OBJECT>>}

\* a date cell as the file holds it under a schema
DateCell(schema, text) ==
  IF schema[2] = DT_DATETIME THEN Ts(IsoDateVal(text)) ELSE Str(text)

DateCells(schema) ==
  IF schema[1] = NoColumn THEN {NULL}
  ELSE {NULL} \cup {DateCell(schema, x) : x \in {t_jan, t_apr}}
       \cup (IF schema[2] = DT_OBJECT THEN {Str(t_bad)} ELSE {})

RatingCells == {NULL, Num(1), Num(5)}
ReviewCells == {NULL, Str(t_good)}

\* the dtype read_excel gives a column of texts: object, or float64 when
\* no cell holds a text
InferredDtype(cells) ==
  IF \E i \in 1..Len(cells) : cells[i].t = "str" THEN DT_OBJECT ELSE DT_NUMBER

Row(rating, review, date) == [rating |-> rating, review |-> review, date |-> date]

\* the data frame read_excel returns for the rows under a schema; a column
\* without a single value is read as float64
MkDF(schema, rows) ==
  LET n == Len(rows)
      cols == <<cRating, cReview>> \o (IF schema[1] = NoColumn THEN <<>> ELSE <<schema[1]>>)
  IN [columns |-> cols,
      dtype |-> [c \in {cols[i] : i \in 1..Len(cols)} |->
                   IF c = cRating THEN DT_NUMBER
                   ELSE IF c = cReview THEN InferredDtype([i \in 1..n |-> rows[i].review])
                   ELSE IF \A i \in 1..n : isnull(rows[i].date) THEN DT_NUMBER
                   ELSE schema[2]],
      data |-> [c \in {cols[i] : i \in 1..Len(cols)} |->
                   IF c = cRating THEN [i \in 1..n |-> rows[i].rating]
                   ELSE IF c = cReview THEN [i \in 1..n |-> rows[i].review]
                   ELSE [i \in 1..n |-> rows[i].date]],
      len |-> n]

\* every sequence of at most maxRows rows
FreeRows(schema, maxRows) ==
  UNION {[1..n -> [rating : RatingCells, review : ReviewCells, date : DateCells(schema)]]
           : n \in 0..maxRows}

\* a review text no other row has
UniqueText(i) == <<"u", Digits[(i \div 10) + 1], Digits[(i % 10) + 1]>>

BlockDate(schema, text) == IF schema[1] = NoColumn THEN NULL ELSE DateCell(schema, text)

\* a rows rated 5 in January with one and the same text, then c rows with
\* every cell missing, then w rows rated 5 in February and b rows rated 1
\* in April, with texts of their own
BlockRows(schema, a, c, w, b) ==
  [i \in 1..(a + c + w + b) |->
     IF i <= a THEN Row(Num(5), Str(t_good), BlockDate(schema, t_jan))
     ELSE IF i <= a + c THEN Row(NULL, NULL, NULL)
     ELSE IF i <= a + c + w THEN Row(Num(5), Str(UniqueText(i)), BlockDate(schema, t_feb))
     ELSE Row(Num(1), Str(UniqueText(i)), BlockDate(schema, t_apr))]

BlockSizes(maxBlock) ==
  {x \in (0..maxBlock) \X (0..maxBlock) \X (0..maxBlock) \X (0..maxBlock) :
     x[1] + x[2] + x[3] + x[4] <= maxBlock}

\* the monthly counts 10, 10, 35 of the documented scenario, with ratings
\* 1..5 in turn and texts of their own
ScenarioRows(schema) ==
  [i \in 1..55 |->
     Row(Num(1 + (i % 5)), Str(UniqueText(i)),
         BlockDate(schema, IF i <= 10 THEN t_jan ELSE IF i <= 20 THEN t_feb ELSE t_apr))]

\* a rows rated 5, b rows rated 4, c rows rated 3 and e rows rated 1, all of
\* January and with texts of their own
MixRows(schema, a, b, c, e) ==
  [i \in 1..(a + b + c + e) |->
     Row(Num(IF i <= a THEN 5 ELSE IF i <= a + b THEN 4 ELSE IF i <= a + b + c THEN 3 ELSE 1),
         Str(UniqueText(i)), BlockDate(schema, t_jan))]

HoldsMix ==
  \E schema \in {<<cDate, DT_DATETIME>>, <<NoColumn, DT_OBJECT>>} :
    \E x \in BlockSizes(MaxMix) :
      file = [readable |-> TRUE, df |-> MkDF(schema, MixRows(schema, x[1], x[2], x[3], x[4]))]

\* one row of January and four rows of April, the dates as timestamps or
\* as texts; and the same file with a column of its own that is named
\* year_month and holds the month of each row as a number
BurstFile(schema, ownMonths) ==
  LET rows == BlockRows(schema, 1, 0, 0, 4)
      d == MkDF(schema, rows)
  IN IF ownMonths
     THEN SetColumn(d, year_month, DT_NUMBER,
                    [i \in 1..Len(rows) |-> Num(IsoDateVal(IF i <= 1 THEN t_jan ELSE t_apr) \div 100)])
     ELSE d

HoldsBurst ==
  \E schema \in {<<cDate, DT_DATETIME>>, <<cDate, DT_OBJECT>>} : \E ownMonths \in BOOLEAN :
    file = [readable |-> TRUE, df |-> BurstFile(schema, ownMonths)]

(***************************************************************************)
(* Row sets with a product and a region column.  The rating column is      *)
(* named Rating, Score or 评分; or the file has one column named           *)
(* "Product Rating"; or a column rating_date of ISO dates comes before     *)
(* the Rating column.                                                      *)
(***************************************************************************)
ProductA == Str(<<"A">>)
ProductB == Str(<<"B">>)

WideKinds == {"Rating", "Score", "Pingfen", "ProductRating", "RatingDate"}

WideColumns(kind) ==
  CASE kind = "Rating" -> <<cRating, cProductName, cCountry>>
    [] kind = "Score" -> <<cScore, cProductName, cCountry, cDate>>
    [] kind = "Pingfen" -> <<cPingfen, cProductName, cCountry, cDate>>
    [] kind = "ProductRating" -> <<cProductRating, cCountry>>
    [] kind = "RatingDate" -> <<cRatingDate, cRating, cProductName, cCountry>>

\* the data frame read_excel returns for the rows
MkWideDF(kind, rows) ==
  LET n == Len(rows)
      cols == WideColumns(kind)
      cells(c) ==
        IF c = cProductName THEN [i \in 1..n |-> rows[i].product]
        ELSE IF c = cCountry THEN [i \in 1..n |-> rows[i].country]
        ELSE IF c = cDate THEN [i \in 1..n |-> Ts(IsoDateVal(t_jan))]
        ELSE IF c = cRatingDate THEN [i \in 1..n |-> Str(t_jan)]
        ELSE [i \in 1..n |-> rows[i].rating]
  IN [columns |-> cols,
      dtype |-> [c \in {cols[i] : i \in 1..Len(cols)} |->
                   IF c = cDate THEN DT_DATETIME
                   ELSE IF c \in {cProductName, cCountry, cRatingDate}
                        THEN InferredDtype(cells(c))
                        ELSE DT_NUMBER],
      data |-> [c \in {cols[i] : i \in 1..Len(cols)} |-> cells(c)],
      len |-> n]

\* every sequence of at most maxRows rows of the given products, of two
\* regions, rated 4, 5 or not at all
WideRows(products, maxRows) ==
  UNION {[1..n -> [product : products, country : {Str(<<"C","N">>), Str(<<"U","S">>)},
                   rating : {NULL, Num(4), Num(5)}]] : n \in 0..maxRows}

HoldsWide ==
  \/ \E rows \in WideRows({ProductA, ProductB}, MaxGroupRows) :
       file = [readable |-> TRUE, df |-> MkWideDF("Rating", rows)]
  \/ \E rows \in WideRows({ProductA}, MaxGroupRows) :
       file = [readable |-> TRUE, df |-> MkWideDF("ProductRating", rows)]
  \/ \E kind \in {"Score", "Pingfen", "RatingDate"} :
       \E rows \in WideRows({ProductA}, MaxNamedRows) :
         file = [readable |-> TRUE, df |-> MkWideDF(kind, rows)]

\* file holds one of the row sets within the bounds
HoldsRowSet(maxRows, maxBlock) ==
  \E schema \in DateSchemas :
    \/ \E rows \in FreeRows(schema, maxRows) :
         file = [readable |-> TRUE, df |-> MkDF(schema, rows)]
    \/ \E x \in BlockSizes(maxBlock) :
         file = [readable |-> TRUE, df |-> MkDF(schema, BlockRows(schema, x[1], x[2], x[3], x[4]))]

HoldsScenario ==
  \E schema \in DateSchemas :
    file = [readable |-> TRUE, df |-> MkDF(schema, ScenarioRows(schema))]

(***************************************************************************)
(* ReviewAnalyzer: the state after construction and the methods.  In mode  *)
(* "pipeline" the methods run in the order of run_full_analysis; in mode   *)
(* "calls" a caller loads the data and then calls the methods in any       *)
(* order, any number of times.                                             *)
(***************************************************************************)
Steps == <<"load_data", "clean_data", "analyze_ratings", "analyze_trends",
           "analyze_products", "analyze_regions", "detect_anomalies",
           "generate_insights", "generate_report", "done">>

StepAfter(step) == Steps[(CHOOSE i \in 1..Len(Steps) : Steps[i] = step) + 1]

\* the method may run now
At(step) ==
  \/ mode = "pipeline" /\ pc = step
  \/ mode = "calls" /\ pc = "idle"

\* where the run stands once the method has returned
Return(step) ==
  /\ pc' = IF mode = "pipeline" THEN StepAfter(step) ELSE "idle"
  /\ result' = IF mode = "pipeline" /\ StepAfter(step) = "done" THEN "True" ELSE result

StartOf ==
  /\ now \in NowChoices
  /\ pc = "load_data"
  /\ df = None
  /\ stats = <<>>
  /\ insights = <<>>
  /\ trend = None
  /\ report = None
  /\ result = "None"
  /\ product_insights = <<>>
  /\ raised = FALSE
  /\ rating_col = None
  /\ product_ranking = None
  /\ region_ranking = None
  /\ previous = None

\* run_full_analysis on a file
Init ==
  /\ mode = "pipeline"
  /\ \/ file = [readable |-> FALSE, df |-> None]
     \/ HoldsRowSet(MaxRows, MaxBlock)
     \/ HoldsScenario
     \/ HoldsMix
     \/ HoldsWide
  /\ numpy_sort = "any"
  /\ StartOf

\* the methods called one by one on a file
InitCalls ==
  /\ mode = "calls"
  /\ \/ file = [readable |-> FALSE, df |-> None]
     \/ HoldsRowSet(MaxRowsCalls, MaxBlockCalls)
     \/ HoldsBurst
  /\ numpy_sort = "any"
  /\ StartOf

\* pd.read_excel succeeds, or raises and load_data returns False, on which
\* run_full_analysis returns False
\* a variant that goes on to the next step whatever the reading gave
load_data_unchecked ==
  /\ mode \in {"pipeline", "calls"} /\ pc = "load_data"
  /\ df' = IF file.readable THEN file.df ELSE df
  /\ pc' = IF mode = "pipeline" THEN "clean_data" ELSE "idle"
  /\ result' = result
  /\ UNCHANGED <<printed, previous, numpy_sort, file, now, mode, product_insights, raised, stats, insights, trend, report>>

load_data ==
  /\ mode \in {"pipeline", "calls"} /\ pc = "load_data"
  /\ IF file.readable
     THEN /\ df' = file.df
          /\ pc' = IF mode = "pipeline" THEN "clean_data" ELSE "idle"
          /\ result' = result
     ELSE /\ df' = df
          /\ pc' = "done"
          /\ result' = IF mode = "pipeline" THEN "False" ELSE result
  /\ UNCHANGED <<printed, previous, numpy_sort, file, now, mode, product_insights, raised, stats, insights, trend, report>>

\* a variant that also fills the missing cells of the rating columns with 0
CleanData_fillna(d) ==
  LET conv(c) == IsDateName(c) /\ to_datetime(d.data[c]).ok
  IN [columns |-> d.columns,
      dtype |-> [c \in DOMAIN d.dtype |-> IF conv(c) THEN DT_DATETIME ELSE d.dtype[c]],
      data |-> [c \in DOMAIN d.data |->
                  IF conv(c) THEN to_datetime(d.data[c]).cells
                  ELSE IF IsRatingName5(c) /\ d.dtype[c] = DT_NUMBER
                       THEN [i \in 1..Len(d.data[c]) |->
                               IF isnull(d.data[c][i]) THEN Num(0) ELSE d.data[c][i]]
                       ELSE d.data[c]],
      len |-> d.len]

\* every column with a date-like name is converted when all of it parses
CleanData(d) ==
  LET conv(c) == IsDateName(c) /\ to_datetime(d.data[c]).ok
  IN [columns |-> d.columns,
      dtype |-> [c \in DOMAIN d.dtype |-> IF conv(c) THEN DT_DATETIME ELSE d.dtype[c]],
      data |-> [c \in DOMAIN d.data |->
                  IF conv(c) THEN to_datetime(d.data[c]).cells ELSE d.data[c]],
      len |-> d.len]

clean_data ==
  /\ At("clean_data")
  /\ df' = CleanData(df)
  /\ Return("clean_data")
  /\ UNCHANGED <<printed, previous, numpy_sort, file, now, mode, product_insights, raised, stats, insights, trend, report>>

\* the first column with a rating-like name is aggregated; the statistics
\* of a column that holds no numbers (timestamps, texts) cannot be
\* formatted with :.2f, and the TypeError leaves the run
analyze_ratings ==
  /\ At("analyze_ratings")
  /\ LET cols == ColumnsWhere(df, [i \in 1..Len(df.columns) |-> IsRatingName4(df.columns[i])])
     IN IF cols = <<>>
        THEN /\ rating_col' = None
             /\ stats' = stats /\ raised' = raised
             /\ Return("analyze_ratings")
        ELSE /\ rating_col' = Str(cols[1])
             /\ IF df.dtype[cols[1]] = DT_NUMBER
                THEN /\ stats' = DictSet(stats, "rating_stats", RatingStats(df))
                     /\ raised' = raised
                     /\ Return("analyze_ratings")
                ELSE /\ stats' = stats
                     /\ raised' = TRUE
                     /\ pc' = IF mode = "pipeline" THEN "done" ELSE "idle"
                     /\ result' = result
  /\ UNCHANGED <<product_ranking, region_ranking, previous, numpy_sort, file, now, mode, product_insights,
                 df, insights, trend, report>>

analyze_trends ==
  /\ At("analyze_trends")
  /\ IF DateCols(df) # <<>>
     THEN /\ df' = WithYearMonth(df)
          /\ trend' = TrendOf(df)
     ELSE /\ df' = df
          /\ trend' = None
  /\ Return("analyze_trends")
  /\ UNCHANGED <<printed, previous, numpy_sort, file, now, mode, product_insights, raised, stats, insights, report>>

\* the rating ranking of the groups of the first column that passes the
\* name test: the group column, the rating column (NoColumn: no ranking)
\* and one of the orders sort_values may give
GroupRankings(d, groupCols) ==
  LET rcols == ColumnsWhere(d, [i \in 1..Len(d.columns) |-> IsRatingName3(d.columns[i])])
  IN IF rcols = <<>>
     THEN {[group_col |-> groupCols[1], rating_col |-> NoColumn, ratings |-> <<>>]}
     ELSE {[group_col |-> groupCols[1], rating_col |-> rcols[1], ratings |-> r] :
             r \in sort_values_as(groupby_agg(d.data[groupCols[1]], d.data[rcols[1]]),
                                    numpy_sort)}

\* the product counts and the rating ranking are printed and plotted; no
\* attribute of the analyzer changes
analyze_products ==
  /\ At("analyze_products")
  /\ LET cols == ColumnsWhere(df, [i \in 1..Len(df.columns) |-> IsProductName(df.columns[i])])
     IN IF cols = <<>> THEN product_ranking' = None
        ELSE product_ranking' \in GroupRankings(df, cols)
  /\ Return("analyze_products")
  /\ UNCHANGED <<rating_col, region_ranking, previous, numpy_sort, file, now, mode, product_insights, raised,
                 df, stats, insights, trend, report>>

\* likewise for the regions
analyze_regions ==
  /\ At("analyze_regions")
  /\ LET cols == ColumnsWhere(df, [i \in 1..Len(df.columns) |-> IsRegionName(df.columns[i])])
     IN IF cols = <<>> THEN region_ranking' = None
        ELSE region_ranking' \in GroupRankings(df, cols)
  /\ Return("analyze_regions")
  /\ UNCHANGED <<rating_col, product_ranking, previous, numpy_sort, file, now, mode, product_insights, raised,
                 df, stats, insights, trend, report>>

detect_anomalies ==
  /\ At("detect_anomalies")
  /\ stats' = DictSet(stats, "anomalies", DetectAnomalies(df, now))
  /\ Return("detect_anomalies")
  /\ UNCHANGED <<printed, previous, numpy_sort, file, now, mode, product_insights, raised, df, insights, trend, report>>

\* a variant that appends to the list that is there
generate_insights_appending ==
  /\ At("generate_insights")
  /\ insights' = insights \o GenerateInsights(stats)
  /\ Return("generate_insights")
  /\ UNCHANGED <<printed, previous, numpy_sort, file, now, mode, product_insights, raised, df, stats, trend, report>>

generate_insights ==
  /\ At("generate_insights")
  /\ insights' = GenerateInsights(stats)
  /\ Return("generate_insights")
  /\ UNCHANGED <<printed, previous, numpy_sort, file, now, mode, product_insights, raised, df, stats, trend, report>>

\* the recommendations of the report, by kind
Recommendations(st) ==
  LET dist == st["rating_stats"].distribution
      total == SumSeq([i \in 1..Len(dist) |-> dist[i].count])
      low_ratings == DistGet(dist, 1) + DistGet(dist, 2)
      high_ratings == DistGet(dist, 4) + DistGet(dist, 5)
  IN (IF "rating_stats" \in DOMAIN st /\ low_ratings > 0 /\ 5 * low_ratings > total
      THEN <<"urgent">> ELSE <<>>)
     \o (IF "rating_stats" \in DOMAIN st /\ high_ratings > 0 /\ 5 * high_ratings > 3 * total
         THEN <<"strength">> ELSE <<>>)
     \o (IF "anomalies" \in DOMAIN st /\ st["anomalies"] # <<>>
         THEN <<"data_quality">> ELSE <<>>)
     \o <<"general">>

generate_report ==
  /\ At("generate_report")
  /\ report' = [summary |-> insights,
                records |-> len(df),
                fields |-> df.columns,
                has_rating |-> "rating_stats" \in DOMAIN stats,
                recommendations |-> Recommendations(stats)]
  /\ Return("generate_report")
  /\ UNCHANGED <<printed, previous, numpy_sort, file, now, mode, product_insights, raised, df, stats, insights, trend>>

Next ==
  \/ load_data
  \/ clean_data
  \/ analyze_ratings
  \/ analyze_trends
  \/ analyze_products
  \/ analyze_regions
  \/ detect_anomalies
  \/ generate_insights
  \/ generate_report

Spec == Init /\ [][Next]_vars

SpecCalls == InitCalls /\ [][Next]_vars

(***************************************************************************)
(* FinalReviewAnalyzer and FinalChartGenerator: analyze_product_pros_cons. *)
(* The two methods have the same body; the two classes differ in           *)
(* load_data and in the plots that follow.  The keyword dictionaries are   *)
(* the ones of the source, in declaration order; a description is given by *)
(* its English gloss.                                                      *)
(***************************************************************************)
cProduct == <<"P","r","o","d","u","c","t"," ","C","a","t","e","g","o","r","y">>

positive_keywords ==
  <<[keyword |-> <<"q","u","a","l","i","t","y">>, desc |-> "excellent quality"],
    [keyword |-> <<"g","r","e","a","t">>, desc |-> "great performance"],
    [keyword |-> <<"e","x","c","e","l","l","e","n","t">>, desc |-> "outstanding performance"],
    [keyword |-> <<"p","e","r","f","e","c","t">>, desc |-> "perfect experience"],
    [keyword |-> <<"f","a","s","t">>, desc |-> "fast"],
    [keyword |-> <<"a","m","a","z","i","n","g">>, desc |-> "amazing"],
    [keyword |-> <<"l","o","v","e">>, desc |-> "loved by users"],
    [keyword |-> <<"b","e","s","t">>, desc |-> "best choice"],
    [keyword |-> <<"g","o","o","d">>, desc |-> "good"],
    [keyword |-> <<"w","o","r","t","h">>, desc |-> "worth the money"],
    [keyword |-> <<"v","a","l","u","e">>, desc |-> "high value for money"],
    [keyword |-> <<"r","e","c","o","m","m","e","n","d">>, desc |-> "recommended"],
    [keyword |-> <<"p","o","w","e","r","f","u","l">>, desc |-> "powerful"],
    [keyword |-> <<"c","o","m","p","a","c","t">>, desc |-> "compact and portable"],
    [keyword |-> <<"d","u","r","a","b","l","e">>, desc |-> "durable"],
    [keyword |-> <<"c","o","m","f","o","r","t","a","b","l","e">>, desc |-> "comfortable"],
    [keyword |-> <<"c","l","e","a","r">>, desc |-> "clear"],
    [keyword |-> <<"e","a","s","y">>, desc |-> "easy to use"]>>

negative_keywords ==
  <<[keyword |-> <<"b","a","d">>, desc |-> "poor quality"],
    [keyword |-> <<"p","o","o","r">>, desc |-> "poor performance"],
    [keyword |-> <<"d","i","s","a","p","p","o","i","n","t","e","d">>, desc |-> "disappointing"],
    [keyword |-> <<"w","a","s","t","e">>, desc |-> "a waste"],
    [keyword |-> <<"b","r","o","k","e">>, desc |-> "broken"],
    [keyword |-> <<"s","t","o","p","p","e","d">>, desc |-> "stopped working"],
    [keyword |-> <<"p","r","o","b","l","e","m">>, desc |-> "has problems"],
    [keyword |-> <<"i","s","s","u","e">>, desc |-> "defective"],
    [keyword |-> <<"w","e","a","k">>, desc |-> "weak performance"],
    [keyword |-> <<"l","o","s","t">>, desc |-> "lost"],
    [keyword |-> <<"f","a","i","l">>, desc |-> "failure"],
    [keyword |-> <<"n","o","t"," ","w","o","r","k">>, desc |-> "does not work"],
    [keyword |-> <<"s","t","u","c","k">>, desc |-> "stuck"],
    [keyword |-> <<"s","l","o","w">>, desc |-> "slow"],
    [keyword |-> <<"c","o","m","p","l","a","i","n","t">>, desc |-> "complaint"],
    [keyword |-> <<"d","i","f","f","i","c","u","l","t">>, desc |-> "difficult"],
    [keyword |-> <<"c","o","m","p","l","i","c","a","t","e","d">>, desc |-> "complicated"],
    [keyword |-> <<"d","e","l","a","y">>, desc |-> "delay"]>>

\* a variant without case folding
KeywordCount_cased(reviews, keyword) ==
  SumSeq([i \in 1..Len(reviews) |-> IF In(keyword, reviews[i].s) THEN 1 ELSE 0])

\* sum(reviews.str.lower().str.contains(keyword, na=False)); no keyword of
\* the dictionaries holds a regex metacharacter, so the match is the
\* substring test
KeywordCount(reviews, keyword) ==
  SumSeq([i \in 1..Len(reviews) |-> IF In(keyword, lower(reviews[i].s)) THEN 1 ELSE 0])

\* a variant that sorts ascending and reverses: hits of equal count come
\* out in reverse dictionary order
KeywordHits_reversed_ties(reviews, dict) ==
  LET counted == [i \in 1..Len(dict) |->
                    [desc |-> dict[i].desc, k |-> 0 - KeywordCount(reviews, dict[i].keyword),
                     keyword |-> dict[i].keyword]]
      asc == SortDesc(Filter(counted, [i \in 1..Len(dict) |-> counted[i].k < 0]))
  IN [i \in 1..Len(asc) |->
        [desc |-> asc[Len(asc) + 1 - i].desc, count |-> 0 - asc[Len(asc) + 1 - i].k,
         keyword |-> asc[Len(asc) + 1 - i].keyword]]

\* the (desc, count, keyword) entries with count > 0, in dictionary order,
\* then sorted by count, descending and stable
KeywordHits(reviews, dict) ==
  LET counted == [i \in 1..Len(dict) |->
                    [desc |-> dict[i].desc, k |-> KeywordCount(reviews, dict[i].keyword),
                     keyword |-> dict[i].keyword]]
      hits == SortDesc(Filter(counted, [i \in 1..Len(dict) |-> counted[i].k > 0]))
  IN [i \in 1..Len(hits) |->
        [desc |-> hits[i].desc, count |-> hits[i].k, keyword |-> hits[i].keyword]]

\* s[:n]
Take(s, n) == SubSeq(s, 1, IF Len(s) < n THEN Len(s) ELSE n)

\* self.df[product_col] == product: a missing cell equals nothing
EqMask(cells, v) == [i \in 1..Len(cells) |-> ~isnull(cells[i]) /\ ~isnull(v) /\ cells[i] = v]

\* a variant that takes a rating of 4 as not good
GoodMask_above4(ratings) == [i \in 1..Len(ratings) |-> ~isnull(ratings[i]) /\ ratings[i].n > 4]

\* product_df[rating_col] >= 4
GoodMask(ratings) == [i \in 1..Len(ratings) |-> ~isnull(ratings[i]) /\ ratings[i].n >= 4]

\* product_df[rating_col] <= 2
BadMask(ratings) == [i \in 1..Len(ratings) |-> ~isnull(ratings[i]) /\ ratings[i].n <= 2]

\* the entry stored for one product
ProductInsight(d, product) ==
  LET mask == EqMask(d.data[cProduct], product)
      ratings == Filter(d.data[cRating], mask)
      reviews == Filter(d.data[cReview], mask)
      rated == dropna(ratings)
      review_count == Len(Positions(mask))
      good_reviews == dropna(Filter(reviews, GoodMask(ratings)))
      bad_reviews == dropna(Filter(reviews, BadMask(ratings)))
  IN [avg_rating |-> [sum |-> SumSeq([i \in 1..Len(rated) |-> rated[i].n]), n |-> Len(rated)],
      review_count |-> review_count,
      pros |-> Take(KeywordHits(good_reviews, positive_keywords), 5),
      cons |-> Take(KeywordHits(bad_reviews, negative_keywords), 3),
      good_review_rate |-> IF review_count > 0
                           THEN [num |-> Len(good_reviews), den |-> review_count]
                           ELSE [num |-> 0, den |-> 1]]

\* the method raises: a KeyError for an absent column (the product column
\* is read first, the rating and review columns inside the loop over the
\* products), an AttributeError of the .str accessor when the review
\* column holds no text at all (read_excel gives it dtype float64)
ProsConsRaises(d) ==
  \/ ~HasColumn(d, cProduct)
  \/ /\ unique(d.data[cProduct]) # <<>>
     /\ \/ ~HasColumn(d, cRating)
        \/ ~HasColumn(d, cReview)
        \/ d.dtype[cReview] # DT_OBJECT

\* self.product_insights after the loop over self.df[product_col].unique()
AnalyzeProsCons(d, old) ==
  LET products == unique(d.data[cProduct])
      keys == {products[i] : i \in 1..Len(products)}
  IN [p \in DOMAIN old \cup keys |-> IF p \in keys THEN ProductInsight(d, p) ELSE old[p]]

(***************************************************************************)
(* The row sets of the pros/cons analyzers: columns Product Category,      *)
(* Rating and Review (one of them may be absent from the file).            *)
(***************************************************************************)
MaxReviews == 2
MaxHits == 3

x_six == <<"f","a","s","t"," ","e","a","s","y"," ","b","e","s","t"," ","l","o","v","e"," ","g","o","o","d"," ","g","r","e","a","t">>
x_gq == <<"G","r","e","a","t"," ","q","u","a","l","i","t","y">>
x_neg4 == <<"B","a","d",":"," ","s","l","o","w",","," ","p","o","o","r",","," ","b","r","o","k","e">>
x_slow == <<"s","l","o","w">>
x_mixed == <<"S","l","o","w"," ","b","u","t"," ","G","O","O","D">>

PRow(product, rating, review) == [product |-> product, rating |-> rating, review |-> review]

\* the data frame read_excel returns for the rows, with the given columns
MkProductDF(cols, rows) ==
  LET n == Len(rows)
  IN [columns |-> cols,
      dtype |-> [c \in {cols[i] : i \in 1..Len(cols)} |->
                   IF c = cRating THEN DT_NUMBER
                   ELSE IF c = cProduct
                        THEN InferredDtype([i \in 1..n |-> rows[i].product])
                        ELSE InferredDtype([i \in 1..n |-> rows[i].review])],
      data |-> [c \in {cols[i] : i \in 1..Len(cols)} |->
                   IF c = cProduct THEN [i \in 1..n |-> rows[i].product]
                   ELSE IF c = cRating THEN [i \in 1..n |-> rows[i].rating]
                   ELSE [i \in 1..n |-> rows[i].review]],
      len |-> n]

AllColumns == <<cProduct, cRating, cReview>>

ColumnChoices ==
  {AllColumns, <<cRating, cReview>>, <<cProduct, cReview>>, <<cProduct, cRating>>}

\* every sequence of at most maxRows rows of two products and the missing
\* product, rated 2, 3, 4 or not at all, with a text or none
FreeProductRows(maxRows) ==
  UNION {[1..n -> [product : {ProductA, ProductB, NULL},
                   rating : {NULL, Num(2), Num(3), Num(4)},
                   review : {NULL, Str(x_mixed)}]] : n \in 0..maxRows}

\* reviews of product A: a rated 5 with six positive keywords, b rated 4
\* with two, c rated 1 with four negative keywords, e rated 2 with one
HitRows(a, b, c, e) ==
  [i \in 1..(a + b + c + e) |->
     IF i <= a THEN PRow(ProductA, Num(5), Str(x_six))
     ELSE IF i <= a + b THEN PRow(ProductA, Num(4), Str(x_gq))
     ELSE IF i <= a + b + c THEN PRow(ProductA, Num(1), Str(x_neg4))
     ELSE PRow(ProductA, Num(2), Str(x_slow))]

HitSizes(maxHits) ==
  {x \in (0..maxHits) \X (0..maxHits) \X (0..maxHits) \X (0..maxHits) :
     x[1] + x[2] + x[3] + x[4] <= maxHits}

HoldsProductRowSet ==
  \/ \E rows \in FreeProductRows(MaxReviews) :
       file = [readable |-> TRUE, df |-> MkProductDF(AllColumns, rows)]
  \/ \E cols \in ColumnChoices : \E x \in HitSizes(MaxHits) :
       file = [readable |-> TRUE, df |-> MkProductDF(cols, HitRows(x[1], x[2], x[3], x[4]))]

\* FinalReviewAnalyzer.run_analysis or FinalChartGenerator.run on a file
InitFinal ==
  /\ mode \in {"final", "charts"}
  /\ \/ file = [readable |-> FALSE, df |-> None]
     \/ HoldsProductRowSet
  /\ numpy_sort = "any"
  /\ StartOf

\* FinalReviewAnalyzer.load_data: a failed read is caught, run_analysis
\* returns
final_load_data ==
  /\ mode = "final" /\ pc = "load_data"
  /\ IF file.readable
     THEN df' = file.df /\ pc' = "analyze_product_pros_cons"
     ELSE df' = df /\ pc' = "done"
  /\ UNCHANGED <<printed, previous, numpy_sort, file, now, mode, stats, insights, trend, report, result,
                 product_insights, raised>>

\* FinalChartGenerator.load_data: a failed read raises
charts_load_data ==
  /\ mode = "charts" /\ pc = "load_data"
  /\ IF file.readable
     THEN df' = file.df /\ pc' = "analyze_product_pros_cons" /\ raised' = raised
     ELSE df' = df /\ pc' = "done" /\ raised' = TRUE
  /\ UNCHANGED <<printed, previous, numpy_sort, file, now, mode, stats, insights, trend, report, result,
                 product_insights>>

\* the body the two classes share
ProsConsStep(after) ==
  /\ pc = "analyze_product_pros_cons"
  /\ IF ProsConsRaises(df)
     THEN /\ raised' = TRUE
          /\ pc' = "done"
          /\ product_insights' = product_insights
     ELSE /\ raised' = raised
          /\ pc' = after
          /\ product_insights' = AnalyzeProsCons(df, product_insights)
  /\ UNCHANGED <<printed, previous, numpy_sort, file, now, mode, df, stats, insights, trend, report, result>>

final_analyze_product_pros_cons ==
  /\ mode = "final"
  /\ ProsConsStep("plot_improved_charts")

charts_analyze_product_pros_cons ==
  /\ mode = "charts"
  /\ ProsConsStep("plot_rating_distribution")

\* the plots read self.df and self.product_insights and write image files
final_plot_improved_charts ==
  /\ mode = "final" /\ pc = "plot_improved_charts"
  /\ pc' = "done"
  /\ UNCHANGED <<printed, previous, numpy_sort, file, now, mode, df, stats, insights, trend, report, result,
                 product_insights, raised>>

charts_plot_rating_distribution ==
  /\ mode = "charts" /\ pc = "plot_rating_distribution"
  /\ pc' = "plot_all_products_details"
  /\ UNCHANGED <<printed, previous, numpy_sort, file, now, mode, df, stats, insights, trend, report, result,
                 product_insights, raised>>

charts_plot_all_products_details ==
  /\ mode = "charts" /\ pc = "plot_all_products_details"
  /\ pc' = "done"
  /\ UNCHANGED <<printed, previous, numpy_sort, file, now, mode, df, stats, insights, trend, report, result,
                 product_insights, raised>>

NextFinal ==
  \/ final_load_data
  \/ final_analyze_product_pros_cons
  \/ final_plot_improved_charts
  \/ charts_load_data
  \/ charts_analyze_product_pros_cons
  \/ charts_plot_rating_distribution
  \/ charts_plot_all_products_details

SpecFinal == InitFinal /\ [][NextFinal]_vars

\* a run of any of the three entry points: run_full_analysis,
\* FinalReviewAnalyzer.run_analysis, FinalChartGenerator.run
InitRuns == Init \/ InitFinal

NextRuns == Next \/ NextFinal

SpecRuns == InitRuns /\ [][NextRuns]_vars

(***************************************************************************)
(* The same analyzer run a second time on the same file, at a later time   *)
(* and under the same numpy.  self.df, self.stats, self.insights and       *)
(* self.product_insights are as the first run left them.                   *)
(***************************************************************************)
\* the aggregates a run has produced: the rating aggregate, the period
\* aggregate, the product and region rankings, the product insights
Aggregates ==
  [rating_stats |-> IF "rating_stats" \in DOMAIN stats THEN stats["rating_stats"] ELSE None,
   trend |-> trend,
   product_ranking |-> product_ranking,
   region_ranking |-> region_ranking,
   product_insights |-> product_insights]

run_again ==
  /\ pc = "done" /\ previous = None
  /\ mode \in {"pipeline", "final", "charts"}
  /\ previous' = Aggregates
  /\ now' = 20240406
  /\ pc' = "load_data"
  /\ result' = "None"
  /\ raised' = FALSE
  /\ trend' = None /\ rating_col' = None
  /\ product_ranking' = None /\ region_ranking' = None
  /\ UNCHANGED <<numpy_sort, file, mode, df, stats, insights, report, product_insights>>

InitTwice ==
  /\ \/ /\ mode = "pipeline"
        /\ \/ file = [readable |-> FALSE, df |-> None]
           \/ HoldsRowSet(MaxRowsCalls, MaxBlockCalls)
           \/ HoldsBurst
           \/ \E rows \in WideRows({ProductA, ProductB}, MaxRowsTwice) :
                file = [readable |-> TRUE, df |-> MkWideDF("Rating", rows)]
        /\ numpy_sort \in {"stable", "reversed"}
     \/ /\ mode \in {"final", "charts"}
        /\ \/ file = [readable |-> FALSE, df |-> None]
           \/ HoldsProductRowSet
        /\ numpy_sort = "stable"
  /\ StartOf

NextTwice == NextRuns \/ run_again

SpecTwice == InitTwice /\ [][NextTwice]_vars

(***************************************************************************)
(* Properties of detect_anomalies.  They are stated on the stored finding  *)
(* list and on self.df; in run_full_analysis no step after                 *)
(* detect_anomalies changes self.df.  Counts are taken as cardinalities of *)
(* sets of row numbers.                                                    *)
(***************************************************************************)
Detected == "anomalies" \in DOMAIN stats

Anomalies == IF Detected THEN stats["anomalies"] ELSE <<>>

\* the positions of the findings of a kind
OfKind(kind) == {j \in 1..Len(Anomalies) : Anomalies[j].kind = kind}

\* the row numbers of a column that hold the value v
RowsWith(cells, v) == {i \in 1..Len(cells) : cells[i] = v}

NonNullRows(cells) == {i \in 1..Len(cells) : cells[i].t # "null"}

RECURSIVE SumOver(_, _)
\* the sum of f[x] over the finite set S
SumOver(S, f) ==
  IF S = {} THEN 0
  ELSE LET x == CHOOSE y \in S : TRUE IN f[x] + SumOver(S \ {x}, f)

\* the cells of the resolved Rating column
RatingCellsOf(d) == d.data[CHOOSE c \in DOMAIN d.data : c = cRating]

\* C1: with a resolved Rating column, a RatingConcentration finding is
\* emitted iff the most frequent rating value holds strictly more than 70%
\* of the non-null ratings, and the finding names that value.
C1_ConcentrationOverNonNull ==
  (Detected /\ HasColumn(df, cRating)) =>
    LET cells == RatingCellsOf(df)
        nonNull == NonNullRows(cells)
        values == {cells[i] : i \in nonNull}
        top == {v \in values :
                  \A w \in values : Cardinality(RowsWith(cells, w)) <= Cardinality(RowsWith(cells, v))}
        fires == \E v \in top : 10 * Cardinality(RowsWith(cells, v)) > 7 * Cardinality(nonNull)
    IN /\ (OfKind("RatingConcentration") # {}) <=> fires
       /\ \A j \in OfKind("RatingConcentration") : Anomalies[j].key \in top

\* the months (YYYYMM) in which a row of the date column falls
MonthsOf(cells) == {cells[i].n \div 100 : i \in NonNullRows(cells)}

RowsInMonth(cells, m) == {i \in NonNullRows(cells) : cells[i].n \div 100 = m}

\* m is an observed month whose count is more than three times the count of
\* the observed month before it
Bursts(cells, m) ==
  \E q \in MonthsOf(cells) :
    /\ q < m
    /\ \A r \in MonthsOf(cells) : r < m => r <= q
    /\ Cardinality(RowsInMonth(cells, m)) > 3 * Cardinality(RowsInMonth(cells, q))

\* the cells of the date column the run works on (none: no cells)
DateCellsOf(d) == IF DateCols(d) = <<>> THEN <<>> ELSE d.data[DateCols(d)[1]]

\* C2: in a pipeline run there is exactly one BurstGrowth finding for every
\* observed month whose count is more than three times (growth strictly
\* above 200%) the count of the observed month before it, it names that
\* month, and there is no other BurstGrowth finding; the first observed
\* month is never flagged.
C2_BurstGrowthExactlyAbove200 ==
  (mode = "pipeline" /\ Detected) =>
    LET cells == DateCellsOf(df)
    IN /\ \A m \in MonthsOf(cells) :
            Cardinality({j \in OfKind("BurstGrowth") : Anomalies[j].key = Period(m)})
              = IF Bursts(cells, m) THEN 1 ELSE 0
       /\ \A j \in OfKind("BurstGrowth") :
            /\ Anomalies[j].key.t = "period"
            /\ Anomalies[j].key.n \in MonthsOf(cells)
            /\ \E q \in MonthsOf(cells) : q < Anomalies[j].key.n

\* The documented scenario has run: monthly counts 10, 10, 35 and only the
\* third month flagged; and so has a run with a growth of exactly 200%.
C2_Witness ==
  /\ mode = "pipeline" /\ Detected
  /\ LET cells == DateCellsOf(df)
     IN /\ MonthsOf(cells) = {202401, 202402, 202404}
        /\ Cardinality(RowsInMonth(cells, 202401)) = 10
        /\ Cardinality(RowsInMonth(cells, 202402)) = 10
        /\ Cardinality(RowsInMonth(cells, 202404)) = 35
        /\ {Anomalies[j].key : j \in OfKind("BurstGrowth")} = {Period(202404)}

\* a month of three times the count of the month before it, not flagged
C2_WitnessBoundary ==
  /\ mode = "pipeline" /\ Detected
  /\ LET cells == DateCellsOf(df)
     IN /\ MonthsOf(cells) = {202401, 202404}
        /\ Cardinality(RowsInMonth(cells, 202401)) = 2
        /\ Cardinality(RowsInMonth(cells, 202404)) = 6
        /\ OfKind("BurstGrowth") = {}

\* C3: when no column name matches the date patterns, whatever the columns
\* hold, the trend analysis yields no period aggregate and no period
\* column, and no FutureDate and no BurstGrowth finding is emitted, and
\* nothing raises.
C3_NoDateNameNoTrend ==
  (df # None /\ \A i \in 1..Len(file.df.columns) : ~IsDateName(file.df.columns[i])) =>
    /\ trend = None
    /\ ~HasColumn(df, year_month)
    /\ OfKind("FutureDate") = {} /\ OfKind("BurstGrowth") = {}
    /\ ~raised

\* the cells of the resolved ReviewText column
ReviewCellsOf(d) == d.data[CHOOSE c \in DOMAIN d.data : c = cReview]

C5_WitnessBoundary ==
  /\ Detected /\ len(df) = 10
  /\ Cardinality({r \in 1..10 : RatingCellsOf(df)[r].t = "null"}) = 3
  /\ OfKind("HighMissingRate") = {}

RuleRank(kind) ==
  CASE kind = "RatingConcentration" -> 1
    [] kind = "DuplicateReviews" -> 2
    [] kind = "FutureDate" -> 3
    [] kind = "BurstGrowth" -> 4
    [] kind = "HighMissingRate" -> 5

ColumnIndex(d, c) == CHOOSE i \in 1..Len(d.columns) : d.columns[i] = c

\* C6: the finding list is in rule order: at most one RatingConcentration,
\* then at most one DuplicateReviews, then at most one FutureDate, then the
\* BurstGrowth findings in chronological order, then the HighMissingRate
\* findings in column order.
C6_RuleOrder ==
  /\ Cardinality(OfKind("RatingConcentration")) <= 1
  /\ Cardinality(OfKind("DuplicateReviews")) <= 1
  /\ Cardinality(OfKind("FutureDate")) <= 1
  /\ \A i, j \in 1..Len(Anomalies) :
       i < j =>
         /\ RuleRank(Anomalies[i].kind) <= RuleRank(Anomalies[j].kind)
         /\ (Anomalies[i].kind = "BurstGrowth" /\ Anomalies[j].kind = "BurstGrowth")
              => Anomalies[i].key.n < Anomalies[j].key.n
         /\ (Anomalies[i].kind = "HighMissingRate" /\ Anomalies[j].kind = "HighMissingRate")
              => ColumnIndex(df, Anomalies[i].key.s) < ColumnIndex(df, Anomalies[j].key.s)

\* a list with findings of four kinds, two columns among them
C6_Witness ==
  /\ OfKind("DuplicateReviews") # {} /\ OfKind("FutureDate") # {}
  /\ OfKind("BurstGrowth") # {}
  /\ Cardinality(OfKind("HighMissingRate")) >= 2

(***************************************************************************)
(* Properties of generate_insights and analyze_ratings, stated on          *)
(* self.insights and self.stats once the step has run in                   *)
(* run_full_analysis.                                                      *)
(***************************************************************************)
\* generate_insights has run
InsightsDone ==
  mode = "pipeline" /\ (pc = "generate_report" \/ (pc = "done" /\ result = "True"))

\* the positions of the insights of a kind
InsightsOf(kind) == {j \in 1..Len(insights) : insights[j].kind = kind}

HasAggregate == "rating_stats" \in DOMAIN stats

\* C11: whenever a rating aggregate exists there is exactly one
\* satisfaction insight, and its band is the one of the mean: very high
\* iff mean >= 4.5, good iff 4.0 <= mean < 4.5, moderate iff
\* 3.0 <= mean < 4.0, low iff mean < 3.0.
C11_SatisfactionBands ==
  (InsightsDone /\ HasAggregate) =>
    LET m == stats["rating_stats"].mean
        defined == m.n > 0
    IN /\ Cardinality(InsightsOf("satisfaction")) = 1
       /\ \A j \in InsightsOf("satisfaction") :
            /\ insights[j].level = "very_high" <=> (defined /\ 2 * m.sum >= 9 * m.n)
            /\ insights[j].level = "good"
                 <=> (defined /\ m.sum >= 4 * m.n /\ 2 * m.sum < 9 * m.n)
            /\ insights[j].level = "moderate"
                 <=> (defined /\ m.sum >= 3 * m.n /\ m.sum < 4 * m.n)
            /\ insights[j].level = "low" <=> (defined /\ m.sum < 3 * m.n)

\* the count of the bucket of rating v in the stored distribution
BucketCount(v) ==
  LET dist == stats["rating_stats"].distribution
      at == {i \in 1..Len(dist) : dist[i].value = Num(v)}
  IN SumOver(at, [i \in at |-> dist[i].count])

HasBucket(v) ==
  \E i \in 1..Len(stats["rating_stats"].distribution) :
    stats["rating_stats"].distribution[i].value = Num(v)

TotalCount ==
  LET dist == stats["rating_stats"].distribution
  IN SumOver(1..Len(dist), [i \in 1..Len(dist) |-> dist[i].count])

\* C12: the polarization warning is emitted iff the distribution has a 5
\* bucket and a 1 bucket and (count of 5 + count of 1) / (total count) is
\* strictly above 0.60; none is emitted without a rating aggregate.
C12_Polarization ==
  InsightsDone =>
    /\ Cardinality(InsightsOf("polarization")) <= 1
    /\ (InsightsOf("polarization") # {})
         <=> /\ HasAggregate
             /\ HasBucket(5) /\ HasBucket(1)
             /\ 5 * (BucketCount(5) + BucketCount(1)) > 3 * TotalCount

\* three rows rated 5 and one rated 1 among five: a share of 0.80, warned
C12_Witness ==
  /\ InsightsDone /\ HasAggregate
  /\ BucketCount(5) = 3 /\ BucketCount(1) = 1 /\ TotalCount = 5
  /\ InsightsOf("polarization") # {}

\* two rows rated 5 and one rated 1 among five: a share of exactly 0.60,
\* not warned
C12_WitnessBoundary ==
  /\ InsightsDone /\ HasAggregate
  /\ BucketCount(5) = 2 /\ BucketCount(1) = 1 /\ TotalCount = 5
  /\ InsightsOf("polarization") = {}

InsightRank(kind) ==
  CASE kind = "satisfaction" -> 1
    [] kind = "polarization" -> 2
    [] kind = "anomaly_count" -> 3

\* C13: the insight list is ordered satisfaction, polarization, anomaly
\* count, each at most once; the anomaly-count insight is there iff the
\* finding list of detect_anomalies is non-empty, and reports its length.
C13_InsightOrder ==
  InsightsDone =>
    /\ \A i, j \in 1..Len(insights) :
         i < j => InsightRank(insights[i].kind) < InsightRank(insights[j].kind)
    /\ (InsightsOf("anomaly_count") # {}) <=> (Len(Anomalies) > 0)
    /\ \A j \in InsightsOf("anomaly_count") : insights[j].n = Len(Anomalies)

\* the three insights in one list, the last one counting several findings
C13_Witness ==
  /\ InsightsDone
  /\ Len(insights) = 3
  /\ insights[1].kind = "satisfaction" /\ insights[2].kind = "polarization"
  /\ insights[3].kind = "anomaly_count" /\ insights[3].n = Len(Anomalies)
  /\ Len(Anomalies) >= 2

\* the cells of the column analyze_ratings aggregates
AggregatedCells(d) ==
  d.data[ColumnsWhere(d, [i \in 1..Len(d.columns) |-> IsRatingName4(d.columns[i])])[1]]

\* C14: the rating aggregate leaves out the missing ratings: the counts of
\* the distribution sum to the number of non-null ratings, its keys are the
\* distinct non-null values in descending order, each with the number of
\* its rows, and the mean of a non-empty rating set lies within [min, max].
C14_AggregateExcludesNull ==
  (mode = "pipeline" /\ HasAggregate) =>
    LET cells == AggregatedCells(df)
        nonNull == NonNullRows(cells)
        dist == stats["rating_stats"].distribution
        m == stats["rating_stats"].mean
    IN /\ TotalCount = Cardinality(nonNull)
       /\ {dist[i].value : i \in 1..Len(dist)} = {cells[i] : i \in nonNull}
       /\ \A i, j \in 1..Len(dist) : i < j => dist[i].value.n > dist[j].value.n
       /\ \A i \in 1..Len(dist) : dist[i].count = Cardinality(RowsWith(cells, dist[i].value))
       /\ m.n = Cardinality(nonNull)
       /\ \A i \in nonNull : \E lo, hi \in nonNull :
            /\ cells[lo].n <= cells[i].n /\ cells[i].n <= cells[hi].n
            /\ m.n * cells[lo].n <= m.sum /\ m.sum <= m.n * cells[hi].n
            /\ \A k \in nonNull : cells[lo].n <= cells[k].n /\ cells[k].n <= cells[hi].n

\* rows rated 5 and 1, the less frequent value first, and a row without
\* rating
C14_Witness ==
  /\ mode = "pipeline" /\ HasAggregate
  /\ \E i \in 1..Len(AggregatedCells(df)) : AggregatedCells(df)[i].t = "null"
  /\ Len(stats["rating_stats"].distribution) = 2
  /\ stats["rating_stats"].distribution[1].count < stats["rating_stats"].distribution[2].count

(***************************************************************************)
(* Properties of the product and region rankings and of the period         *)
(* aggregate, stated on what the steps print.                              *)
(***************************************************************************)
\* the ranking r was printed with ratings
Ranked(r) == IF r = None THEN FALSE ELSE r.rating_col # NoColumn

\* group a comes before group b by the rule: higher mean, then higher
\* count, then lower key
GoesBefore(a, b) ==
  \/ a.sum * b.count > b.sum * a.count
  \/ /\ a.sum * b.count = b.sum * a.count
     /\ \/ a.count > b.count
        \/ a.count = b.count /\ KeyLess(a.key, b.key)

\* the groups with a mean are in the order of the rule
RankedByRule(r) ==
  \A i, j \in 1..Len(r.ratings) :
    (i < j /\ r.ratings[i].count > 0 /\ r.ratings[j].count > 0)
      => GoesBefore(r.ratings[i], r.ratings[j])

\* C15: the product and the region rating rankings are in descending order
\* of the mean rating, groups of equal mean in descending order of count
\* and then in the lexical order of the key.
C15_RankingTieBreak ==
  /\ Ranked(product_ranking) => RankedByRule(product_ranking)
  /\ Ranked(region_ranking) => RankedByRule(region_ranking)

\* the period aggregate was printed
HasTrend == mode = "pipeline" /\ trend # None

\* C16: the period aggregate has exactly one entry per calendar month in
\* which a row is dated, in chronological order, with the number of the
\* rows of that month; a month without rows has no entry; and when the
\* step resolves a Rating column there is one mean per entry, the mean of
\* the non-null ratings of that month.
C16_PeriodAggregate ==
  HasTrend =>
    LET dates == df.data[trend.date_col]
        ms == trend.monthly_stats
        mr == trend.monthly_rating
    IN /\ {ms[i].key.n : i \in 1..Len(ms)} = MonthsOf(dates)
       /\ \A i, j \in 1..Len(ms) : i < j => ms[i].key.n < ms[j].key.n
       /\ \A i \in 1..Len(ms) :
            /\ ms[i].key.t = "period"
            /\ ms[i].count = Cardinality(RowsInMonth(dates, ms[i].key.n))
            /\ ms[i].count > 0
       /\ trend.has_rating =>
            /\ Len(mr) = Len(ms)
            /\ \A i \in 1..Len(mr) :
                 LET rated == {r \in RowsInMonth(dates, ms[i].key.n) :
                                 df.data[trend.rating_col][r].t # "null"}
                 IN /\ mr[i].key = ms[i].key
                    /\ mr[i].n = Cardinality(rated)
                    /\ mr[i].sum = SumOver(rated, [r \in rated |-> df.data[trend.rating_col][r].n])

\* rows in January, February and April: three entries, none for March
C16_Witness ==
  /\ HasTrend /\ trend.has_rating
  /\ [i \in 1..Len(trend.monthly_stats) |->
        <<trend.monthly_stats[i].key.n, trend.monthly_stats[i].count>>]
       = << <<202401, 10>>, <<202402, 10>>, <<202404, 35>> >>
  /\ trend.monthly_rating[3].n = 35

(***************************************************************************)
(* Properties of the column roles.  The column a step works on is read     *)
(* off what the step leaves behind: rating_col of analyze_ratings, the     *)
(* columns named in the printed trend and rankings, the dtype clean_data   *)
(* gives a column, the findings of detect_anomalies.                       *)
(***************************************************************************)
StepIndex(step) == CHOOSE i \in 1..Len(Steps) : Steps[i] = step

\* the step has run in run_full_analysis
Past(step) ==
  /\ mode = "pipeline" /\ df # None
  /\ StepIndex(pc) > StepIndex(step)
  /\ ~raised \/ step = "clean_data"

\* the name matches one of rating, star, score, 评分, 星
RatingLike(col) ==
  \/ \E pat \in {<<"r","a","t","i","n","g">>, <<"s","t","a","r">>, <<"s","c","o","r","e">>} : In(pat, lower(col))
  \/ \E pat \in {<<"U8BC4","U5206">>, <<"U661F">>} : In(pat, col)

\* the rating-like columns of the file
RatingLikeColumns == {c \in DOMAIN file.df.data : RatingLike(c)}

\* C17: for a row set whose only rating-like column is named by score or
\* 评分, every step takes that column as its Rating column: the rating
\* aggregate, the trend, the product ranking, the region ranking and the
\* anomaly detection (which flags a column of one and the same rating).
C17_RatingResolvedAlike ==
  (df # None /\ Cardinality(RatingLikeColumns) = 1) =>
    \A c \in RatingLikeColumns :
      (In(<<"s","c","o","r","e">>, lower(c)) \/ In(<<"U8BC4","U5206">>, c)) =>
        /\ Past("analyze_ratings") => rating_col = Str(c) /\ HasAggregate
        /\ trend # None => trend.rating_col = c
        /\ product_ranking # None => product_ranking.rating_col = c
        /\ region_ranking # None => region_ranking.rating_col = c
        /\ (Detected /\ len(df) > 0 /\ \A i \in 1..len(df) : df.data[c][i] = df.data[c][1]
              /\ df.data[c][1].t = "num")
             => OfKind("RatingConcentration") # {}

RolePriority == <<"Date", "Rating", "Product", "Region", "ReviewText">>

\* the name matches the patterns of the role
MatchesRole(role, col) ==
  CASE role = "Date" -> IsDateName(col)
    [] role = "Rating" -> RatingLike(col)
    [] role = "Product" -> IsProductName(col)
    [] role = "Region" -> IsRegionName(col)
    [] role = "ReviewText" -> IsCommentName(col)

\* the (role, column) pairs the steps that have run worked with
RoleUses ==
  {<<"Date", c>> : c \in {x \in DOMAIN df.data :
                            /\ x \in DOMAIN file.df.data
                            /\ df.dtype[x] = DT_DATETIME
                            /\ file.df.dtype[x] # DT_DATETIME}}
  \cup (IF rating_col = None THEN {} ELSE {<<"Rating", rating_col.s>>})
  \cup (IF trend = None THEN {}
        ELSE {<<"Date", trend.date_col>>}
             \cup (IF trend.has_rating THEN {<<"Rating", trend.rating_col>>} ELSE {}))
  \cup (IF product_ranking = None THEN {}
        ELSE {<<"Product", product_ranking.group_col>>}
             \cup (IF Ranked(product_ranking)
                   THEN {<<"Rating", product_ranking.rating_col>>} ELSE {}))
  \cup (IF region_ranking = None THEN {}
        ELSE {<<"Region", region_ranking.group_col>>}
             \cup (IF Ranked(region_ranking)
                   THEN {<<"Rating", region_ranking.rating_col>>} ELSE {}))

\* C18: no column is used in more than one role, and a column whose name
\* matches the patterns of several roles is used only in the first of them
\* in the order Date, Rating, Product, Region, ReviewText.
C18_OneRolePerColumn ==
  (mode = "pipeline" /\ df # None) =>
    /\ \A u, v \in RoleUses : u[2] = v[2] => u[1] = v[1]
    /\ \A u \in RoleUses :
         \A i, j \in 1..Len(RolePriority) :
           (MatchesRole(RolePriority[i], u[2]) /\ RolePriority[j] = u[1]) => j <= i

(***************************************************************************)
(* Properties of analyze_product_pros_cons.  They are stated on            *)
(* self.product_insights and on self.df, which no step after the analysis  *)
(* changes.  Counts are taken as cardinalities of sets of row numbers, and  *)
(* the match is stated character by character.                             *)
(***************************************************************************)
\* the row numbers whose product cell is p
ProductRows(d, p) ==
  {i \in 1..len(d) : d.data[cProduct][i].t # "null" /\ d.data[cProduct][i] = p}

\* an upper-case letter paired with its lower-case letter
CasePairs == {<<Uppers[i], Lowers[i]>> : i \in 1..26}

\* kw, a lower-case text, occurs in text at some offset, letter case
\* ignored
ContainsFolded(text, kw) ==
  \E o \in 0..(Len(text) - Len(kw)) :
    \A j \in 1..Len(kw) : text[o + j] = kw[j] \/ <<text[o + j], kw[j]>> \in CasePairs

\* the rows of p in the good (rating >= 4) or bad (rating <= 2) subset
\* whose text is present and contains kw
MatchingRows(d, p, kw, good) ==
  {i \in ProductRows(d, p) :
     /\ d.data[cRating][i].t = "num"
     /\ IF good THEN d.data[cRating][i].n >= 4 ELSE d.data[cRating][i].n <= 2
     /\ d.data[cReview][i].t = "str"
     /\ ContainsFolded(d.data[cReview][i].s, kw)}

RECURSIVE MatchCountsUpTo(_, _, _, _, _)
\* the number of matching rows of p for each of the first n entries of the
\* dictionary
MatchCountsUpTo(d, p, dict, good, n) ==
  IF n = 0 THEN <<>>
  ELSE Append(MatchCountsUpTo(d, p, dict, good, n - 1),
              Cardinality(MatchingRows(d, p, dict[n].keyword, good)))

MatchCounts(d, p, dict, good) == MatchCountsUpTo(d, p, dict, good, Len(dict))

\* every stored hit is a dictionary entry with the count of its matching
\* rows, and a list shorter than its limit lacks no keyword that matched
CountsAgree(d, p, hits, dict, good, limit) ==
  LET cnt == MatchCounts(d, p, dict, good)
  IN /\ \A j \in 1..Len(hits) :
          \E k \in 1..Len(dict) :
            /\ hits[j].keyword = dict[k].keyword
            /\ hits[j].desc = dict[k].desc
            /\ hits[j].count = cnt[k]
     /\ Len(hits) < limit =>
          \A k \in 1..Len(dict) :
            cnt[k] > 0 => \E j \in 1..Len(hits) : hits[j].keyword = dict[k].keyword

\* C7: for every product, the count recorded for a positive keyword is the
\* number of the product's rows with rating >= 4 and a present text that
\* contains the keyword, letter case ignored, each row counted once;
\* likewise for the negative keywords over the rows with rating <= 2.  Rows
\* rated 3, rows without rating and rows without text count nowhere.
C7_KeywordCounts ==
  \A p \in DOMAIN product_insights :
    /\ CountsAgree(df, p, product_insights[p].pros, positive_keywords, TRUE, 5)
    /\ CountsAgree(df, p, product_insights[p].cons, negative_keywords, FALSE, 3)

\* two reviews rated 4 that read "Great quality" and one rated 2 that reads
\* "slow": great is recorded twice, slow once
C7_Witness ==
  /\ ProductA \in DOMAIN product_insights
  /\ Cardinality({i \in ProductRows(df, ProductA) : df.data[cReview][i] = Str(x_gq)}) = 2
  /\ \E j \in 1..Len(product_insights[ProductA].pros) :
       /\ product_insights[ProductA].pros[j].keyword = <<"g","r","e","a","t">>
       /\ product_insights[ProductA].pros[j].count = 2
  /\ \E j \in 1..Len(product_insights[ProductA].cons) :
       /\ product_insights[ProductA].cons[j].keyword = <<"s","l","o","w">>
       /\ product_insights[ProductA].cons[j].count = 1

\* a review rated 3 and a review rated 4 with the same text: one hit
C7_WitnessExcluded ==
  /\ ProductA \in DOMAIN product_insights
  /\ \E i, k \in ProductRows(df, ProductA) :
       /\ df.data[cRating][i] = Num(3) /\ df.data[cRating][k] = Num(4)
       /\ df.data[cReview][i] = Str(x_mixed) /\ df.data[cReview][k] = Str(x_mixed)
  /\ product_insights[ProductA].pros =
       <<[desc |-> "good", count |-> 1, keyword |-> <<"g","o","o","d">>]>>
  /\ product_insights[ProductA].cons = <<>>

\* C8: for every product, good_review_rate is (the number of the product's
\* rows with rating >= 4) / (the number of the product's rows) * 100, a row
\* rated >= 4 counting in the numerator with or without a review text.
C8_GoodRateOverAllRows ==
  \A p \in DOMAIN product_insights :
    p.t # "null" =>
      LET total == Cardinality(ProductRows(df, p))
          good == Cardinality({i \in ProductRows(df, p) :
                                 df.data[cRating][i].t = "num" /\ df.data[cRating][i].n >= 4})
          rate == product_insights[p].good_review_rate
      IN total > 0 /\ rate.num * total = good * rate.den

\* the dictionary entries that come before entry k in a ranking by the
\* counts cnt: those that matched more often, or as often and declared
\* earlier
Ahead(cnt, k) ==
  {q \in DOMAIN cnt : cnt[q] > cnt[k] \/ (cnt[q] = cnt[k] /\ q < k)}

\* hits is the first limit entries of the ranking of p
RankedTop(d, p, hits, dict, good, limit) ==
  LET cnt == MatchCounts(d, p, dict, good)
      matched == {k \in 1..Len(dict) : cnt[k] > 0}
  IN /\ Len(hits) = IF Cardinality(matched) < limit THEN Cardinality(matched) ELSE limit
     /\ \A i, j \in 1..Len(hits) : i < j => hits[i].count >= hits[j].count
     /\ \A k \in matched :
          Cardinality(Ahead(cnt, k)) < limit =>
            hits[Cardinality(Ahead(cnt, k)) + 1].keyword = dict[k].keyword

\* C9: for every product, the stored hit lists are in descending order of
\* count, hits of equal count are in dictionary order, and the lists are
\* the first 5 entries of the positive ranking and the first 3 entries of
\* the negative ranking.
C9_RankedTopHits ==
  \A p \in DOMAIN product_insights :
    /\ RankedTop(df, p, product_insights[p].pros, positive_keywords, TRUE, 5)
    /\ RankedTop(df, p, product_insights[p].cons, negative_keywords, FALSE, 3)

\* seven positive keywords matched, great twice and so first although
\* quality is declared before it, good and easy cut off; four negative
\* keywords matched once, slow cut off
C9_Witness ==
  /\ ProductA \in DOMAIN product_insights
  /\ LET pros == product_insights[ProductA].pros
         cons == product_insights[ProductA].cons
     IN /\ [j \in 1..Len(pros) |-> <<pros[j].desc, pros[j].count>>] =
             << <<"great performance", 2>>, <<"excellent quality", 1>>, <<"fast", 1>>,
                <<"loved by users", 1>>, <<"best choice", 1>> >>
        /\ [j \in 1..Len(cons) |-> <<cons[j].desc, cons[j].count>>] =
             << <<"poor quality", 1>>, <<"poor performance", 1>>, <<"broken", 1>> >>
        /\ MatchingRows(df, ProductA, <<"s","l","o","w">>, FALSE) # {}
        /\ MatchingRows(df, ProductA, <<"e","a","s","y">>, TRUE) # {}

\* C10: every key of the product-insight map has review_count >= 1,
\* whatever the rows, rows without product included.
C10_EveryKeyHasRows ==
  \A p \in DOMAIN product_insights : product_insights[p].review_count >= 1

(***************************************************************************)
(* Properties of the runs on files that lack a column or cannot be read.   *)
(***************************************************************************)
\* C19: the pros/cons extraction on a row set that lacks the product, the
\* rating or the review-text column is skipped: no product insights and
\* no error.
C19_MissingColumnSkipped ==
  (mode \in {"final", "charts"} /\ df # None
     /\ \E c \in {cProduct, cRating, cReview} : ~HasColumn(df, c))
    => (~raised /\ product_insights = <<>>)

\* C20: when the source cannot be read, no analysis step runs:
\* run_full_analysis returns False with stats and insights empty and no
\* report written, FinalReviewAnalyzer.run_analysis returns with
\* product_insights empty, and no step but load_data is ever taken while
\* there is no row set.
C20_LoadFailureAborts ==
  /\ df = None => pc \in {"load_data", "done"}
  /\ (~file.readable /\ pc # "load_data") =>
       /\ pc = "done" /\ df = None
       /\ stats = <<>> /\ insights = <<>> /\ report = None /\ trend = None
       /\ rating_col = None /\ product_ranking = None /\ region_ranking = None
       /\ product_insights = <<>>
       /\ mode = "pipeline" => result = "False" /\ ~raised
       /\ mode = "final" => ~raised

\* run_full_analysis has returned False on an unreadable file
C20_Witness ==
  /\ mode = "pipeline" /\ ~file.readable
  /\ pc = "done" /\ result = "False" /\ stats = <<>> /\ report = None

\* FinalReviewAnalyzer.run_analysis has returned on an unreadable file
C20_WitnessFinal ==
  /\ mode = "final" /\ ~file.readable
  /\ pc = "done" /\ ~raised /\ product_insights = <<>>

(***************************************************************************)
(* Properties of the row set self.df across the steps.                     *)
(***************************************************************************)
\* e is d with some columns of a date-like name turned into timestamps:
\* same columns and rows, a missing cell stays missing, every other column
\* is as it was
CoercedOnly(d, e) ==
  /\ e.columns = d.columns /\ e.len = d.len
  /\ DOMAIN e.data = DOMAIN d.data
  /\ \A c \in DOMAIN d.data :
       \/ e.data[c] = d.data[c] /\ e.dtype[c] = d.dtype[c]
       \/ /\ IsDateName(c) /\ e.dtype[c] = DT_DATETIME
          /\ Len(e.data[c]) = Len(d.data[c])
          /\ \A i \in 1..Len(d.data[c]) :
               IF isnull(d.data[c][i]) THEN isnull(e.data[c][i]) ELSE e.data[c][i].t = "ts"

\* e is d with the column year_month set: every other column is as it was
PeriodAdded(d, e) ==
  /\ e.len = d.len
  /\ e.columns = IF HasColumn(d, year_month) THEN d.columns ELSE Append(d.columns, year_month)
  /\ DOMAIN e.data = DOMAIN d.data \cup {year_month}
  /\ e.dtype[year_month] = DT_PERIOD
  /\ \A c \in DOMAIN d.data \ {year_month} :
       e.data[c] = d.data[c] /\ e.dtype[c] = d.dtype[c]

SquaredDeviations(cells) ==
  LET rows == NonNullRows(cells)
      n == Cardinality(rows)
      sx == SumOver(rows, [i \in rows |-> cells[i].n])
      sxx == SumOver(rows, [i \in rows |-> cells[i].n * cells[i].n])
  IN n * sxx - sx * sx

\* C23: the stored standard deviation is the population one (squared
\* deviations over n, not n - 1) when at least 2 ratings are present, and
\* undefined, never zero, when 0 or 1 are.
C23_PopulationStd ==
  (mode = "pipeline" /\ HasAggregate) =>
    LET cells == AggregatedCells(df)
        n == Cardinality(NonNullRows(cells))
        std == stats["rating_stats"].std
    IN IF n >= 2
       THEN std.den # 0 /\ std.num * (n * n) = SquaredDeviations(cells) * std.den
       ELSE std.den = 0

(***************************************************************************)
(* Properties of detect_anomalies when the methods are called one by one,  *)
(* in any order.                                                           *)
(***************************************************************************)
\* C24: every column a HighMissingRate finding names is a column of the
\* loaded row set; the period column year_month that analyze_trends adds
\* is never named, in whatever order the two methods are called.
C24_PeriodColumnNotFlagged ==
  Detected =>
    \A j \in OfKind("HighMissingRate") :
      /\ HasColumn(file.df, Anomalies[j].key.s)
      /\ Anomalies[j].key.s # year_month

\* the rows of the first datetime column that lie after the clock's date
FutureRows(d, t) ==
  {i \in NonNullRows(DateCellsOf(d)) : DateCellsOf(d)[i].n > t}

\* a call of detect_anomalies has stored its findings in this step (a call
\* that stores the list that was there before shows nothing new)
DetectedNow == Detected' /\ (~Detected \/ Anomalies' # Anomalies)

\* the findings just stored hold no BurstGrowth, and a FutureDate finding
\* iff a row of the date column lies in the future
NoBurstButFuture ==
  /\ \A j \in 1..Len(Anomalies') : Anomalies'[j].kind # "BurstGrowth"
  /\ (\E j \in 1..Len(Anomalies') : Anomalies'[j].kind = "FutureDate")
       <=> FutureRows(df, now) # {}

\* C25: a BurstGrowth finding is stored only after analyze_trends has run
\* on the row set; detect_anomalies called with no analyze_trends before
\* it stores no BurstGrowth finding, whatever the monthly counts are, and
\* still evaluates FutureDate.
C25_BurstNeedsTrends ==
  [][(DetectedNow /\ trend = None) => NoBurstButFuture]_vars

\* C25 as amended: the rule needs the column year_month in self.df, which
\* analyze_trends sets and which the loaded file may also hold.
C25_BurstNeedsPeriodColumn ==
  /\ [](OfKind("BurstGrowth") # {} =>
          (trend # None \/ (file.readable /\ HasColumn(file.df, year_month))))
  /\ [][(DetectedNow /\ ~HasColumn(df, year_month)) => NoBurstButFuture]_vars

\* detect_anomalies has run before any analyze_trends on one row of January
\* and four of April: the April rows are reported as future dates, the
\* growth from 1 to 4 is not
C25_Witness ==
  /\ mode = "calls" /\ Detected /\ trend = None /\ ~HasColumn(df, year_month)
  /\ Bursts(DateCellsOf(df), 202404)
  /\ OfKind("BurstGrowth") = {}
  /\ \E j \in OfKind("FutureDate") : Anomalies[j].num = 4

\* C26: rows without a review text do not count as duplicates: when the
\* texts that are present are all distinct there is no DuplicateReviews
\* finding, however many rows have no text.
C26_MissingTextNoDuplicate ==
  (mode = "pipeline" /\ Detected /\ HasColumn(df, cReview)) =>
    LET cells == ReviewCellsOf(df)
    IN (\A i, k \in NonNullRows(cells) : i # k => cells[i] # cells[k])
         => OfKind("DuplicateReviews") = {}

(***************************************************************************)
(* Properties of the BurstGrowth rule on months without rows.              *)
(***************************************************************************)
\* the last observed month before the observed month m
PreviousObserved(cells, m) ==
  CHOOSE q \in MonthsOf(cells) : q < m /\ \A r \in MonthsOf(cells) : r < m => r <= q

\* C27: BurstGrowth compares an observed month with the observed month
\* before it, whatever calendar months without rows lie between the two:
\* the later month is flagged iff its count is more than three times that
\* count, the finding carries the growth over that count, and the count it
\* divides by is at least 1.
C27_BurstAgainstObservedPeriod ==
  (mode = "pipeline" /\ Detected) =>
    LET cells == DateCellsOf(df)
        cnt(m) == Cardinality(RowsInMonth(cells, m))
        later == {m \in MonthsOf(cells) : \E q \in MonthsOf(cells) : q < m}
    IN /\ \A j \in OfKind("BurstGrowth") :
            /\ Anomalies[j].key.n \in later
            /\ Anomalies[j].den = cnt(PreviousObserved(cells, Anomalies[j].key.n))
            /\ Anomalies[j].den >= 1
            /\ Anomalies[j].num = cnt(Anomalies[j].key.n) - Anomalies[j].den
       /\ \A m \in later :
            (\E j \in OfKind("BurstGrowth") : Anomalies[j].key = Period(m))
              <=> cnt(m) > 3 * cnt(PreviousObserved(cells, m))

\* January and April hold rows, February and March none, and April is
\* flagged against January's count
C27_Witness ==
  /\ mode = "pipeline" /\ Detected
  /\ MonthsOf(DateCellsOf(df)) = {202401, 202404}
  /\ \E j \in OfKind("BurstGrowth") :
       /\ Anomalies[j].key = Period(202404)
       /\ Anomalies[j].den = Cardinality(RowsInMonth(DateCellsOf(df), 202401))
       /\ Anomalies[j].den >= 2

\* January, February and April hold rows; April has more than three times
\* the rows of January but not of February, and is not flagged
C27_WitnessNotFlagged ==
  /\ mode = "pipeline" /\ Detected
  /\ MonthsOf(DateCellsOf(df)) = {202401, 202402, 202404}
  /\ Cardinality(RowsInMonth(DateCellsOf(df), 202404))
       > 3 * Cardinality(RowsInMonth(DateCellsOf(df), 202401))
  /\ OfKind("BurstGrowth") = {}

(***************************************************************************)
(* Properties of generate_insights when the methods are called one by      *)
(* one, in any order and any number of times.                              *)
(***************************************************************************)
\* the insight list is the one that belongs to the stored statistics
InsightsSettled ==
  /\ \A i, j \in 1..Len(insights) :
       i < j => InsightRank(insights[i].kind) < InsightRank(insights[j].kind)
  /\ (InsightsOf("satisfaction") # {}) <=> HasAggregate
  /\ \A j \in InsightsOf("satisfaction") :
       insights[j].level = Satisfaction(stats["rating_stats"].mean)
  /\ (InsightsOf("polarization") # {})
       <=> /\ HasAggregate
           /\ HasBucket(5) /\ HasBucket(1)
           /\ 5 * (BucketCount(5) + BucketCount(1)) > 3 * TotalCount
  /\ (InsightsOf("anomaly_count") # {}) <=> (Len(Anomalies) > 0)
  /\ \A j \in InsightsOf("anomaly_count") : insights[j].n = Len(Anomalies)

\* C28: generate_insights replaces the insight list: the list never has more
\* than 3 entries nor two of one kind; a step that changes it leaves stats
\* as it is and gives the list that belongs to stats; and from then on, as
\* long as stats is not changed, the list stays the same, however often
\* generate_insights is called.
C28_InsightsReplaced ==
  /\ [](/\ Len(insights) <= 3
        /\ \A i, j \in 1..Len(insights) : i # j => insights[i].kind # insights[j].kind)
  /\ [][insights' # insights => (stats' = stats /\ InsightsSettled')]_vars
  /\ [][(InsightsSettled /\ stats' = stats) => insights' = insights]_vars

\* three insights after calls in some order on a row set with ratings 5 and
\* 1 and several findings
C28_Witness ==
  /\ mode = "calls" /\ Len(insights) = 3 /\ InsightsSettled
  /\ insights[2].kind = "polarization"
  /\ insights[3].n >= 2

(***************************************************************************)
(* Properties of a second run of the same analyzer on the same file.       *)
(***************************************************************************)
\* C22: a second run on the same row set ends with the aggregates of the
\* first: the rating aggregate, the period aggregate, the product and
\* region rankings and the product insights depend on the row set only,
\* not on what the first run left in the analyzer nor on the time of the
\* run.
C22_RerunSameAggregates ==
  (previous # None /\ pc = "done") => Aggregates = previous

\* the second run of run_full_analysis has ended at a later time, with a
\* rating aggregate and a ranking of two products of equal mean
C22_Witness ==
  /\ mode = "pipeline" /\ previous # None /\ pc = "done" /\ result = "True"
  /\ now = 20240406
  /\ HasAggregate
  /\ Ranked(product_ranking) /\ Len(product_ranking.ratings) = 2
  /\ ~MeanAbove(product_ranking.ratings[1], product_ranking.ratings[2])
  /\ product_ranking.ratings[2].count > 0
  /\ Ranked(region_ranking)

\* the second run has ended with a rating aggregate and a period aggregate
\* of two months, the later of which lay in the future in the first run
C22_WitnessTrend ==
  /\ mode = "pipeline" /\ previous # None /\ pc = "done" /\ result = "True"
  /\ HasAggregate /\ trend # None /\ Len(trend.monthly_stats) = 2
  /\ OfKind("FutureDate") = {}
  /\ \E i \in 1..len(df) : DateCellsOf(df)[i].n > 20240310

\* the second run of FinalReviewAnalyzer.run_analysis has ended with
\* insights on two products
C22_WitnessFinal ==
  /\ mode = "final" /\ previous # None /\ pc = "done" /\ ~raised
  /\ Cardinality(DOMAIN product_insights) = 2

====
